---- MODULE Spec2Model ----
(***************************************************************************)
(* Rule evaluation and alerting engine of the energy platform:             *)
(* RuleEvaluator (docs/LLD.md, section 4.4.3) run by concurrent workers    *)
(* against one rule store and one alert repository.                        *)
(*                                                                         *)
(* Time is counted in minutes.  Telemetry values and thresholds are whole  *)
(* numbers (the columns are NUMERIC(10,2); no claim depends on fractions). *)
(***************************************************************************)
EXTENDS Bags, Integers, Sequences, FiniteSets, TLC

\* ---------------------------------------------------------------- bounds
\* Last minute of the wall clock.
MaxTime == 15
\* Minutes by which one step of the wall clock advances it.
TickMinutes == 15
\* Number of telemetry events handed to the engine in one behaviour.
MaxEvents == 2
MaxDispatches == 3
\* The alerts page lists at most this many alerts.
MaxAlerts == 2
\* The alerts page asks for this many alerts per page (the page itself
\* asks for 20).
pageSize == 1
\* The operator of a page waits while this many of its requests are
\* unanswered.
MaxCalls == 2
\* The create-rule page is opened again while fewer rules than this exist.
MaxRules == 1
\* The rules page lists this many rules.
MaxListedRules == 2
\* "Export latest data" is clicked at most this many times.
MaxExports == 1
\* The device analytics page has at most this many requests of an export
\* unanswered.
MaxTicks == 1
\* "Run analytics" is clicked at most this many times.
MaxJobs == 2

\* ------------------------------------------------------ program constants
\* rules.cooldown_minutes INTEGER DEFAULT 15
DefaultCooldown == 15

Workers == {"w1", "w2"}
Devices == {"D1", "D2"}
RuleIds == {1, 2}

\* A NULL device_id column.
NoDevice == ""

\* ------------------------------------------------------------ telemetry
\* TelemetryPayload: every field is a float64 of the struct, so a payload
\* always carries these four properties and no other.
TelemetryFields == {"voltage", "current", "power", "temperature"}

Payload(dev, ts, temp) ==
    [DeviceID |-> dev, Timestamp |-> ts,
     Voltage |-> 230, Current |-> 1, Power |-> 100, Temperature |-> temp]

\* The payload of device D1 whose field `property` holds `value`.
PayloadWith(property, value) ==
    [DeviceID |-> "D1", Timestamp |-> 0,
     Voltage |-> IF property = "voltage" THEN value ELSE 230,
     Current |-> IF property = "current" THEN value ELSE 1,
     Power |-> IF property = "power" THEN value ELSE 100,
     Temperature |-> IF property = "temperature" THEN value ELSE 45]

\* The telemetry events of the model: a reading below and one above 50
\* degrees, from either device.
Payloads ==
    {Payload(d, ts, temp) : d \in Devices, ts \in {0}, temp \in {45, 55}}

NoPayload == Payload(NoDevice, 0, 0)

\* ----------------------------------------------------------------- rules
Rule(id, dev, scope, devs, prop, op, thr, status, cd) ==
    [ID |-> id, DeviceID |-> dev, Scope |-> scope, DeviceIDs |-> devs,
     Property |-> prop, Operator |-> op, Threshold |-> thr,
     Status |-> status, CooldownMinutes |-> cd, LastTriggered |-> {}]

\* The rule rows a store may hold for rule `id`.  LastTriggered is the
\* nullable last_triggered column: {} for NULL, {t} for the timestamp t.
\* Rule 1 is bound to device D1 (or, with an unknown property or an
\* operator outside the six the evaluator knows, to none);
\* rule 2 applies to all devices or to a selected set of them.
RuleRows(id) ==
    IF id = 1
    THEN { Rule(id, "D1", "selected_devices", {"D1"}, "temperature", ">", 50,
                "active", DefaultCooldown),
           Rule(id, "D1", "selected_devices", {"D1"}, "temperature", ">", 50,
                "paused", DefaultCooldown),
           Rule(id, NoDevice, "all_devices", {}, "humidity", "<", 50,
                "active", DefaultCooldown),
           Rule(id, NoDevice, "all_devices", {}, "temperature", "~", 50,
                "active", DefaultCooldown) }
    ELSE { Rule(id, NoDevice, "all_devices", {}, "temperature", ">=", 50,
                "active", DefaultCooldown),
           Rule(id, NoDevice, "all_devices", {}, "voltage", "<", 200,
                "active", DefaultCooldown),
           Rule(id, NoDevice, "all_devices", {}, "temperature", ">", 50,
                "archived", 0),
           Rule(id, NoDevice, "selected_devices", {"D1", "D2"},
                "temperature", ">", 50, "active", 0) }

\* ----------------------------------------------------------------- state
VARIABLES
    now,        \* the wall clock, time.Now()
    rules,      \* rule store: rule id -> rule row
    alerts,     \* alert repository: the set of alert rows
    notified,   \* ids of the alerts handed to SendAlertNotifications
    nEvents,    \* telemetry events handed to the engine so far
    pc,         \* per worker: where its EvaluateRules call stands
    telemetry,  \* per worker: the payload of its EvaluateRules call
    pending,    \* per worker: the rules of its lookup not yet handled
    alert,      \* per worker: the alert handleRuleTrigger has built
    stamp,      \* per worker: the time.Now() passed to UpdateLastTriggered
    logged,     \* the lines the latest step of the engine wrote with
                \* log.Printf (<< >> when it wrote none)
    task,       \* dispatcher: per (alert id, channel) the delivery task
    circuit,    \* dispatcher: per channel the circuit breaker
    notificationLogs,  \* dispatcher: the bag of rows of notification_logs
    deadLetters,       \* dispatcher: the (alert id, channel) pairs escalated
    evalIn,     \* evaluator harness: the rule and payload handed to evaluateRule
    evalOut,    \* evaluator harness: {} before the call, {result} after it
    alertsPage, \* alerts page: the state of the component (the status the
                \* table shows per alert id, the error)
    calls,      \* web pages: the requests sent and not yet answered
    form,       \* create-rule page: the state of the component, the rule
                \* createRule returned and the route shown
    apiRules,   \* the rule rows behind the rule API
    rulesPage,  \* rules page: the state of the component (the status the
                \* table shows per rule id, loading, the error)
    devicePage, \* device analytics page: the state of the component
    intervals,  \* device analytics page: the setInterval timers that are
                \* set, the time since each export started, the ids
                \* handed out so far
    requested   \* analytics service: per job id the number of
                \* getAnalyticsResults requests received

vars == <<now, rules, alerts, notified, nEvents, pc, telemetry, pending,
          alert, stamp, logged, task, circuit, notificationLogs,
          deadLetters, evalIn, evalOut, alertsPage, calls,
          form, apiRules, rulesPage, devicePage, intervals, requested>>

evalVars == <<evalIn, evalOut>>

dispVars == <<task, circuit, notificationLogs, deadLetters>>

store == <<rules, alerts, notified>>

\* The state of the pages other than the alerts page and the create-rule
\* page.
otherPages == <<rulesPage, devicePage, intervals, requested>>

uiVars == <<alertsPage, calls, form, apiRules, otherPages>>

NoAlert ==
    [ID |-> 0, RuleID |-> 0, DeviceID |-> NoDevice, ActualValue |-> 0,
     ThresholdValue |-> 0, Status |-> "none", CreatedAt |-> 0]

\* The line handleRuleTrigger logs when alertRepo.Create fails.
CreateFailedLine == "Failed to create alert"

NoEval == [Property |-> "", Operator |-> "", Threshold |-> 0, Value |-> 0]

\* The notification channels a rule may name.
Channels == {"email", "whatsapp"}

\* The notification_channels of the rules of the model: email alone, or
\* email and whatsapp.
ChannelSets == {{"email"}, Channels}

\* The ids of the alerts the dispatcher is handed.
AlertIds == 1 .. MaxDispatches

\* A delivery task: "none" (the alert does not exist or does not name the
\* channel), "queued" (waiting for its next attempt) or "done"; the
\* provider calls made so far; and, once done, the outcome.
NoTask == [state |-> "none", attempts |-> 0, outcome |-> ""]

\* A circuit: the consecutive failed provider calls, and the time it opened
\* ({} while it has not).
ClosedCircuit == [failures |-> 0, openedAt |-> {}]

\* The dispatcher before any alert was handed to it.
DispatchInit ==
    /\ task = [k \in AlertIds \X Channels |-> NoTask]
    /\ circuit = [c \in Channels |-> ClosedCircuit]
    /\ notificationLogs = EmptyBag
    /\ deadLetters = {}

\* The ids of the alerts the alerts page can list.
PageAlertIds == 1 .. MaxAlerts

\* CreateRulePage as it is mounted (a rule name is a sequence of
\* characters, error "" is null, created 0 is no rule).
NewForm ==
    [ruleName |-> << >>, threshold |-> "", notificationChannels |-> {},
     enabled |-> TRUE, loading |-> FALSE, error |-> "", created |-> 0,
     route |-> "/rules/new"]

\* AlertsPage as it is mounted: an empty table ("none": the alert is not
\* listed), loading, page 1 of 1, every status.
NewAlertsPage ==
    [alerts |-> [a \in PageAlertIds |-> "none"], loading |-> TRUE,
     error |-> FALSE, page |-> 1, totalPages |-> 1, statusFilter |-> "all"]

\* The ids of the rules the rules page can list.
ListedRuleIds == 1 .. MaxListedRules

\* RulesPage before its first load has answered: an empty table ("none":
\* the rule is not listed).
NewRulesPage ==
    [rules |-> [i \in ListedRuleIds |-> "none"], loading |-> TRUE,
     error |-> FALSE]

\* The three kinds of analysis of the device analytics page.
AnalyticsType == {"anomaly", "prediction", "forecast"}

ExportIds == 1 .. MaxExports

JobIds == 1 .. MaxJobs

\* DeviceAnalyticsPage once its datasets and models are loaded: no job (0),
\* no status (""), no result series (0: empty, otherwise the job whose
\* results the series holds), not running, no error (""), the datasets as
\* first loaded (0, otherwise the export after which they were refreshed).
NewDevicePage ==
    [analysisType |-> "anomaly", jobId |-> 0, status |-> "",
     points |-> [t \in AnalyticsType |-> 0], running |-> FALSE,
     error |-> "", datasets |-> 0]

\* No timer set, no export and no job started.
NoIntervals ==
    [polls |-> {}, elapsed |-> [p \in ExportIds |-> 0], exports |-> 0,
     timer |-> 0, jobs |-> 0]

DevicePageInit ==
    /\ devicePage = NewDevicePage
    /\ intervals = NoIntervals
    /\ requested = [j \in JobIds |-> 0]

\* The alerts page before it is mounted: an empty table ("none": the alert
\* is not listed), no error, nothing in flight; the create-rule page as
\* mounted; no rule behind the rule API.
UiInit ==
    /\ alertsPage = NewAlertsPage
    /\ calls = {}
    /\ form = NewForm
    /\ apiRules = {}
    /\ rulesPage = NewRulesPage
    /\ DevicePageInit

\* The engine before any telemetry, over the rule rows rs.
EngineInit(rs) ==
    /\ now = 0
    /\ rules = rs
    /\ alerts = {}
    /\ notified = {}
    /\ nEvents = 0
    /\ pc = [w \in Workers |-> "idle"]
    /\ telemetry = [w \in Workers |-> NoPayload]
    /\ pending = [w \in Workers |-> << >>]
    /\ alert = [w \in Workers |-> NoAlert]
    /\ stamp = [w \in Workers |-> 0]
    /\ logged = << >>

Init ==
    /\ \E rs \in {f \in [RuleIds -> UNION {RuleRows(i) : i \in RuleIds}] :
                     \A i \in RuleIds : f[i] \in RuleRows(i)} : EngineInit(rs)
    /\ DispatchInit
    /\ UiInit
    /\ evalIn = NoEval
    /\ evalOut = {}

\* ------------------------------------------------- RuleEvaluator helpers
\* extractValue: the field named by `property`, 0 for any other name.
extractValue(t, property) ==
    CASE property = "voltage" -> t.Voltage
      [] property = "current" -> t.Current
      [] property = "power" -> t.Power
      [] property = "temperature" -> t.Temperature
      [] OTHER -> 0

\* Compare with ">=" evaluated as ">".
Compare_strictGe(actualValue, operator, threshold) ==
    CASE operator = ">" -> actualValue > threshold
      [] operator = "<" -> actualValue < threshold
      [] operator = ">=" -> actualValue > threshold
      [] operator = "<=" -> actualValue <= threshold
      [] operator = "=" -> actualValue = threshold
      [] operator = "!=" -> actualValue # threshold
      [] OTHER -> FALSE

\* The switch of evaluateRule on rule.Operator.
Compare(actualValue, operator, threshold) ==
    CASE operator = ">" -> actualValue > threshold
      [] operator = "<" -> actualValue < threshold
      [] operator = ">=" -> actualValue >= threshold
      [] operator = "<=" -> actualValue <= threshold
      [] operator = "=" -> actualValue = threshold
      [] operator = "!=" -> actualValue # threshold
      [] OTHER -> FALSE

evaluateRule(rule, t) ==
    Compare(extractValue(t, rule.Property), rule.Operator, rule.Threshold)

\* IsActive that only rules out archived rules.
IsActive_notArchived(rule) == rule.Status # "archived"

\* rule.Status != "active" is the first test of shouldEvaluate.
IsActive(rule) == rule.Status = "active"

\* cooldownExpiry of shouldEvaluate, for a rule whose LastTriggered is set.
cooldownExpiry(rule) ==
    (CHOOSE t \in rule.LastTriggered : TRUE) + rule.CooldownMinutes

\* shouldEvaluate that still suppresses at the moment the cooldown expires.
shouldEvaluate_expiryExcluded(rule, t) ==
    IF ~IsActive(rule) THEN FALSE
    ELSE IF rule.LastTriggered # {} /\ t <= cooldownExpiry(rule) THEN FALSE
    ELSE TRUE

\* shouldEvaluate with time.Now() = t: false for a rule that is not active
\* and while t is before the cooldown expiry.
shouldEvaluate(rule, t) ==
    IF ~IsActive(rule) THEN FALSE
    ELSE IF rule.LastTriggered # {} /\ t < cooldownExpiry(rule) THEN FALSE
    ELSE TRUE

\* ScopeMatches that does not look at the device set of a rule.
ScopeMatches_anyDevice(rule, deviceId) ==
    rule.Scope \in {"all_devices", "selected_devices"}

\* Scope of a rule (rule engine README, Multi-Device Support).
ScopeMatches(rule, deviceId) ==
    \/ rule.Scope = "all_devices"
    \/ rule.Scope = "selected_devices" /\ deviceId \in rule.DeviceIDs

\* ruleRepo.GetActiveRulesByDevice: the active rules applicable to the
\* device, as read from the store at the time of the call, in id order.
GetActiveRulesByDevice(rs, deviceId) ==
    SelectSeq([i \in 1..Cardinality(RuleIds) |-> rs[i]],
              LAMBDA r : IsActive(r) /\ ScopeMatches(r, deviceId))

\* The alert handleRuleTrigger builds for `rule` and payload `t` at time `at`.
BuildAlert(rule, t, at) ==
    [ID |-> 0, RuleID |-> rule.ID, DeviceID |-> rule.DeviceID,
     ActualValue |-> extractValue(t, rule.Property),
     ThresholdValue |-> rule.Threshold, Status |-> "open", CreatedAt |-> at]

\* --------------------------------------------------------------- actions
\* pc of a worker: "idle" (no call), "failed" (the rule lookup failed and
\* EvaluateRules is returning the error), "loop" (between two iterations),
\* "create" (before alertRepo.Create), "stamp" (before the time.Now() of the
\* UpdateLastTriggered call), "write" (before the write of that call).

\* EvaluateRules is called with payload p: the rule lookup succeeds (ok) and
\* the loop starts, or it fails.
OnTelemetry(w, p, ok) ==
    /\ pc[w] = "idle"
    /\ nEvents < MaxEvents
    /\ nEvents' = nEvents + 1
    /\ telemetry' = [telemetry EXCEPT ![w] = p]
    /\ IF ok
       THEN /\ pending' = [pending EXCEPT
                             ![w] = GetActiveRulesByDevice(rules, p.DeviceID)]
            /\ pc' = [pc EXCEPT ![w] = "loop"]
       ELSE /\ pc' = [pc EXCEPT ![w] = "failed"]
            /\ UNCHANGED pending
    /\ UNCHANGED <<now, store, alert, stamp>>
    /\ logged' = << >>
    /\ UNCHANGED <<evalVars, dispVars, uiVars>>

\* EvaluateRules returns the error of the rule lookup.
ReturnErr(w) ==
    /\ pc[w] = "failed"
    /\ pc' = [pc EXCEPT ![w] = "idle"]
    /\ telemetry' = [telemetry EXCEPT ![w] = NoPayload]
    /\ UNCHANGED <<now, store, nEvents, pending, alert, stamp>>
    /\ logged' = << >>
    /\ UNCHANGED <<evalVars, dispVars, uiVars>>

\* One iteration of the loop up to the Create call: shouldEvaluate, then
\* evaluateRule, then the alert of handleRuleTrigger is built.  The two
\* time.Now() of this stretch (cooldown check, CreatedAt) read the same
\* minute; no store access lies between them.  The rule stays at the head
\* of `pending` until handleRuleTrigger has returned.
Evaluate(w) ==
    /\ pc[w] = "loop"
    /\ pending[w] # << >>
    /\ LET rule == Head(pending[w]) IN
       IF shouldEvaluate(rule, now) /\ evaluateRule(rule, telemetry[w])
       THEN /\ alert' = [alert EXCEPT
                           ![w] = BuildAlert(rule, telemetry[w], now)]
            /\ pc' = [pc EXCEPT ![w] = "create"]
            /\ UNCHANGED pending
       ELSE /\ pending' = [pending EXCEPT ![w] = Tail(pending[w])]
            /\ UNCHANGED <<pc, alert>>
    /\ UNCHANGED <<now, store, nEvents, telemetry, stamp>>
    /\ logged' = << >>
    /\ UNCHANGED <<evalVars, dispVars, uiVars>>

\* CreateAlert that goes on to UpdateLastTriggered after a failed write.
CreateAlert_errorIgnored(w, ok) ==
    /\ pc[w] = "create"
    /\ IF ok
       THEN LET row == [alert[w] EXCEPT !.ID = Cardinality(alerts) + 1] IN
            /\ alerts' = alerts \cup {row}
            /\ alert' = [alert EXCEPT ![w] = row]
            /\ logged' = << >>
       ELSE /\ logged' = <<CreateFailedLine>>
            /\ UNCHANGED <<alerts, alert>>
    /\ pc' = [pc EXCEPT ![w] = "stamp"]
    /\ UNCHANGED <<now, rules, notified, nEvents, telemetry, pending, stamp>>
    /\ UNCHANGED <<evalVars, dispVars, uiVars>>

\* CreateAlert whose failed write ends the whole pass: the rules still
\* waiting in the loop are dropped.
CreateAlert_abortsPass(w, ok) ==
    /\ pc[w] = "create"
    /\ IF ok
       THEN LET row == [alert[w] EXCEPT !.ID = Cardinality(alerts) + 1] IN
            /\ alerts' = alerts \cup {row}
            /\ alert' = [alert EXCEPT ![w] = row]
            /\ logged' = << >>
            /\ pc' = [pc EXCEPT ![w] = "stamp"]
            /\ UNCHANGED pending
       ELSE /\ alert' = [alert EXCEPT ![w] = NoAlert]
            /\ logged' = <<CreateFailedLine>>
            /\ pending' = [pending EXCEPT ![w] = << >>]
            /\ pc' = [pc EXCEPT ![w] = "loop"]
            /\ UNCHANGED alerts
    /\ UNCHANGED <<now, rules, notified, nEvents, telemetry, stamp>>
    /\ UNCHANGED <<evalVars, dispVars, uiVars>>

\* CreateAlert whose failed write is returned as the error of the call.
CreateAlert_returnsErr(w, ok) ==
    /\ pc[w] = "create"
    /\ IF ok
       THEN LET row == [alert[w] EXCEPT !.ID = Cardinality(alerts) + 1] IN
            /\ alerts' = alerts \cup {row}
            /\ alert' = [alert EXCEPT ![w] = row]
            /\ logged' = << >>
            /\ pc' = [pc EXCEPT ![w] = "stamp"]
            /\ UNCHANGED pending
       ELSE /\ alert' = [alert EXCEPT ![w] = NoAlert]
            /\ logged' = <<CreateFailedLine>>
            /\ pending' = [pending EXCEPT ![w] = << >>]
            /\ pc' = [pc EXCEPT ![w] = "failed"]
            /\ UNCHANGED alerts
    /\ UNCHANGED <<now, rules, notified, nEvents, telemetry, stamp>>
    /\ UNCHANGED <<evalVars, dispVars, uiVars>>

\* alertRepo.Create: the alert is stored, or the write fails, the failure is
\* logged and handleRuleTrigger returns.
CreateAlert(w, ok) ==
    /\ pc[w] = "create"
    /\ IF ok
       THEN LET row == [alert[w] EXCEPT !.ID = Cardinality(alerts) + 1] IN
            /\ alerts' = alerts \cup {row}
            /\ alert' = [alert EXCEPT ![w] = row]
            /\ logged' = << >>
            /\ pc' = [pc EXCEPT ![w] = "stamp"]
            /\ UNCHANGED pending
       ELSE /\ alert' = [alert EXCEPT ![w] = NoAlert]
            /\ logged' = <<CreateFailedLine>>
            /\ pending' = [pending EXCEPT ![w] = Tail(pending[w])]
            /\ pc' = [pc EXCEPT ![w] = "loop"]
            /\ UNCHANGED alerts
    /\ UNCHANGED <<now, rules, notified, nEvents, telemetry, stamp>>
    /\ UNCHANGED <<evalVars, dispVars, uiVars>>

\* The argument time.Now() of UpdateLastTriggered is evaluated.
StampNow(w) ==
    /\ pc[w] = "stamp"
    /\ stamp' = [stamp EXCEPT ![w] = now]
    /\ pc' = [pc EXCEPT ![w] = "write"]
    /\ UNCHANGED <<now, store, nEvents, telemetry, pending, alert>>
    /\ logged' = << >>
    /\ UNCHANGED <<evalVars, dispVars, uiVars>>

\* UpdateLastTriggered that starts the notifications and waits for them:
\* handleRuleTrigger returns only once a row of notification_logs exists
\* for the alert.
UpdateLastTriggered_awaitsDelivery(w, ok) ==
    /\ pc[w] = "write"
    /\ \E row \in BagToSet(notificationLogs) : row.alert_id = alert[w].ID
    /\ rules' = IF ok
                THEN [rules EXCEPT
                        ![alert[w].RuleID].LastTriggered = {stamp[w]}]
                ELSE rules
    /\ notified' = notified \cup {alert[w].ID}
    /\ alert' = [alert EXCEPT ![w] = NoAlert]
    /\ pending' = [pending EXCEPT ![w] = Tail(pending[w])]
    /\ pc' = [pc EXCEPT ![w] = "loop"]
    /\ stamp' = [stamp EXCEPT ![w] = 0]
    /\ UNCHANGED <<now, alerts, nEvents, telemetry>>
    /\ logged' = << >>
    /\ UNCHANGED <<evalVars, dispVars, uiVars>>

\* ruleRepo.UpdateLastTriggered writes the stamped time (its error, if any,
\* is not looked at), the notifications are started and handleRuleTrigger
\* returns.
UpdateLastTriggered(w, ok) ==
    /\ pc[w] = "write"
    /\ rules' = IF ok
                THEN [rules EXCEPT
                        ![alert[w].RuleID].LastTriggered = {stamp[w]}]
                ELSE rules
    /\ notified' = notified \cup {alert[w].ID}
    /\ alert' = [alert EXCEPT ![w] = NoAlert]
    /\ pending' = [pending EXCEPT ![w] = Tail(pending[w])]
    /\ pc' = [pc EXCEPT ![w] = "loop"]
    /\ stamp' = [stamp EXCEPT ![w] = 0]
    /\ UNCHANGED <<now, alerts, nEvents, telemetry>>
    /\ logged' = << >>
    /\ UNCHANGED <<evalVars, dispVars, uiVars>>

\* The alerts a call of worker w hands back to its caller: EvaluateRules
\* returns an error value and nothing else.
ReturnedAlerts(w) == {}

\* The loop is over: EvaluateRules returns nil.
Return(w) ==
    /\ pc[w] = "loop"
    /\ pending[w] = << >>
    /\ pc' = [pc EXCEPT ![w] = "idle"]
    /\ telemetry' = [telemetry EXCEPT ![w] = NoPayload]
    /\ UNCHANGED <<now, store, nEvents, pending, alert, stamp>>
    /\ logged' = << >>
    /\ UNCHANGED <<evalVars, dispVars, uiVars>>

\* The wall clock advances.
Tick ==
    /\ now + TickMinutes <= MaxTime
    /\ now' = now + TickMinutes
    /\ UNCHANGED <<store, nEvents, pc, telemetry, pending, alert, stamp>>
    /\ logged' = << >>
    /\ UNCHANGED <<evalVars, dispVars, uiVars>>

Next ==
    \/ Tick
    \/ \E w \in Workers, p \in Payloads, ok \in BOOLEAN : OnTelemetry(w, p, ok)
    \/ \E w \in Workers : Evaluate(w)
    \/ \E w \in Workers, ok \in BOOLEAN : CreateAlert(w, ok)
    \/ \E w \in Workers : StampNow(w)
    \/ \E w \in Workers, ok \in BOOLEAN : UpdateLastTriggered(w, ok)
    \/ \E w \in Workers : Return(w)
    \/ \E w \in Workers : ReturnErr(w)

Spec == Init /\ [][Next]_vars

\* The steps of the goroutine that runs EvaluateRules for worker w.
WorkerStep(w) ==
    \/ Evaluate(w)
    \/ \E ok \in BOOLEAN : CreateAlert(w, ok)
    \/ StampNow(w)
    \/ \E ok \in BOOLEAN : UpdateLastTriggered(w, ok)
    \/ Return(w)
    \/ ReturnErr(w)

\* The engine under the scheduling of the Go runtime: a goroutine that can
\* take a step takes one (its store calls end, with a result or an error,
\* when their context does).  Nothing is assumed of the providers: the
\* notifications, once started, take no step at all.
InitFair ==
    /\ EngineInit([i \in RuleIds |->
                     Rule(i, "D1", "selected_devices", {"D1"}, "temperature",
                          ">", 50, "active", DefaultCooldown)])
    /\ DispatchInit
    /\ UiInit
    /\ evalIn = NoEval
    /\ evalOut = {}

SpecFair ==
    /\ InitFair
    /\ [][Next]_vars
    /\ \A w \in Workers : WF_vars(WorkerStep(w))

\* ------------------------------------------------- evaluator harness
\* evaluateRule applied to one rule and one payload drawn from bounded sets:
\* every operator and telemetry field, thresholds and values around the
\* thresholds of the scenarios (50 degrees, 200 volts).
Operators == {">", "<", ">=", "<=", "=", "!="}
EvalValues == {45, 50, 55, 200, 230}

EvalInputs ==
    [Property : TelemetryFields, Operator : Operators,
     Threshold : EvalValues, Value : EvalValues]

EvalRule(in) ==
    Rule(1, "D1", "selected_devices", {"D1"}, in.Property, in.Operator,
         in.Threshold, "active", DefaultCooldown)

InitEval ==
    /\ EngineInit([i \in RuleIds |->
                     Rule(i, "D1", "selected_devices", {"D1"}, "temperature",
                          ">", 50, "active", DefaultCooldown)])
    /\ DispatchInit
    /\ UiInit
    /\ evalIn \in EvalInputs
    /\ evalOut = {}

\* evaluateRule is called on the drawn rule and payload.
EvalCall ==
    /\ evalOut = {}
    /\ evalOut' = {evaluateRule(EvalRule(evalIn),
                                PayloadWith(evalIn.Property, evalIn.Value))}
    /\ UNCHANGED <<now, store, nEvents, pc, telemetry, pending, alert, stamp,
                   logged, dispVars, uiVars, evalIn>>

NextEval == EvalCall

SpecEval == InitEval /\ [][NextEval]_vars

\* ------------------------------------------------------ cooldown gate
\* The guard of the EvaluateRules loop body on one rule row, under every
\* combination of the row's last_triggered and the reading of time.Now().
\* last_triggered is written from the time.Now() of whichever engine
\* instance triggered last, so it may lie ahead of the clock of the instance
\* that evaluates the rule next.
GateTimes == {0, 15, 30}

GateInputs ==
    [CooldownMinutes : {0, DefaultCooldown},
     LastTriggered   : {{}} \cup {{t} : t \in GateTimes},
     Status          : {"active", "paused", "archived"},
     Value           : {45, 55},
     Timestamp       : GateTimes]

GateRule(in) ==
    [Rule(1, "D1", "selected_devices", {"D1"}, "temperature", ">", 50,
          in.Status, in.CooldownMinutes)
       EXCEPT !.LastTriggered = in.LastTriggered]

InitGate ==
    /\ now \in GateTimes
    /\ rules = [i \in RuleIds |->
                  Rule(i, "D1", "selected_devices", {"D1"}, "temperature",
                       ">", 50, "active", DefaultCooldown)]
    /\ alerts = {}
    /\ notified = {}
    /\ nEvents = 0
    /\ pc = [w \in Workers |-> "idle"]
    /\ telemetry = [w \in Workers |-> NoPayload]
    /\ pending = [w \in Workers |-> << >>]
    /\ alert = [w \in Workers |-> NoAlert]
    /\ stamp = [w \in Workers |-> 0]
    /\ logged = << >>
    /\ DispatchInit
    /\ UiInit
    /\ evalIn \in GateInputs
    /\ evalOut = {}

\* The event of the harness: its timestamp field is drawn like the clock.
GateEvent(in) == Payload("D1", in.Timestamp, in.Value)

\* GateCall that takes the time of the cooldown check from the timestamp
\* of the event.
GateCall_eventTime ==
    /\ evalOut = {}
    /\ evalOut' = {/\ shouldEvaluate(GateRule(evalIn),
                                     GateEvent(evalIn).Timestamp)
                   /\ evaluateRule(GateRule(evalIn), GateEvent(evalIn))}
    /\ UNCHANGED <<now, store, nEvents, pc, telemetry, pending, alert, stamp,
                   logged, dispVars, uiVars, evalIn>>

\* The loop body decides whether handleRuleTrigger is called for the rule.
GateCall ==
    /\ evalOut = {}
    /\ evalOut' = {/\ shouldEvaluate(GateRule(evalIn), now)
                   /\ evaluateRule(GateRule(evalIn), GateEvent(evalIn))}
    /\ UNCHANGED <<now, store, nEvents, pc, telemetry, pending, alert, stamp,
                   logged, dispVars, uiVars, evalIn>>

NextGate == GateCall

SpecGate == InitGate /\ [][NextGate]_vars

\* ------------------------------------------------ notification dispatch
\* SendAlertNotifications: every channel of a stored alert gets its own
\* delivery task.  A task calls the channel's provider under a timeout,
\* retries a failed call up to MaxRetryAttempts calls in all, and goes
\* through the channel's circuit breaker: BreakerThreshold consecutive
\* failed calls open the circuit, an open circuit turns tasks away without
\* a provider call until ResetWindow minutes have passed.  Every finished
\* task leaves one row in notification_logs; a task that used up its
\* attempts is escalated to the dead letters.
MaxRetryAttempts == 3
BreakerThreshold == 3
ResetWindow == 15

\* The circuit of channel c turns calls away at time t.
CircuitOpen(c, t) ==
    /\ circuit[c].openedAt # {}
    /\ \A o \in circuit[c].openedAt : t < o + ResetWindow

\* The circuit of channel c after a provider call that succeeded (ok) or
\* failed at time t.
CircuitAfter(c, ok, t) ==
    IF ok
    THEN ClosedCircuit
    ELSE IF circuit[c].failures + 1 >= BreakerThreshold
         THEN [failures |-> BreakerThreshold, openedAt |-> {t}]
         ELSE [failures |-> circuit[c].failures + 1, openedAt |-> {}]

\* A row of notification_logs; the table is a bag of rows, since nothing
\* in it keeps two rows from being equal.
LogRow(a, c, status, attempts, response) ==
    [alert_id |-> a, channel |-> c, status |-> status, attempts |-> attempts,
     provider_response |-> response]

\* handleRuleTrigger has stored an alert and hands it, with the channels chs
\* of its rule, to SendAlertNotifications.
Dispatch(chs) ==
    LET a == Cardinality(alerts) + 1 IN
    /\ a \in AlertIds
    /\ alerts' = alerts \cup
                   {[BuildAlert(rules[1], Payload("D1", 0, 55), now)
                       EXCEPT !.ID = a]}
    /\ notified' = notified \cup {a}
    /\ task' = [k \in AlertIds \X Channels |->
                  IF k[1] = a /\ k[2] \in chs
                  THEN [NoTask EXCEPT !.state = "queued"]
                  ELSE task[k]]
    /\ UNCHANGED <<now, rules, nEvents, pc, telemetry, pending, alert, stamp,
                   logged, circuit, notificationLogs, deadLetters, evalVars,
                   uiVars>>

\* Attempt that calls the provider whatever the state of the circuit.
Attempt_ignoresCircuit(a, c, ok) ==
    LET k == <<a, c>>
        n == task[k].attempts + 1
    IN
    /\ task[k].state = "queued"
    /\ \A b \in AlertIds : b < a => task[<<b, c>>].state # "queued"
    /\ circuit' = [circuit EXCEPT ![c] = CircuitAfter(c, ok, now)]
    /\ IF ok
       THEN /\ task' = [task EXCEPT ![k].state = "done",
                                    ![k].attempts = n,
                                    ![k].outcome = "sent"]
            /\ notificationLogs' = notificationLogs (+)
                  SetToBag({LogRow(a, c, "sent", n, "ok")})
            /\ UNCHANGED deadLetters
       ELSE IF n >= MaxRetryAttempts
            THEN /\ task' = [task EXCEPT ![k].state = "done",
                                         ![k].attempts = n,
                                         ![k].outcome = "exhausted"]
                 /\ notificationLogs' = notificationLogs (+)
                       SetToBag({LogRow(a, c, "failed", n, "timeout")})
                 /\ deadLetters' = deadLetters \cup {k}
            ELSE /\ task' = [task EXCEPT ![k].attempts = n]
                 /\ UNCHANGED <<notificationLogs, deadLetters>>
    /\ UNCHANGED <<now, store, nEvents, pc, telemetry, pending, alert, stamp,
                   logged, evalVars, uiVars>>

\* Attempt that gives up the alert as a whole: when the task ends without a
\* delivery, the tasks of the same alert still queued on the other channels
\* are ended with it.
Attempt_failFast(a, c, ok) ==
    LET k == <<a, c>>
        n == task[k].attempts + 1
        Abort(t, outcome, attempts) ==
            [j \in AlertIds \X Channels |->
               IF j = k
               THEN [state |-> "done", attempts |-> attempts,
                     outcome |-> outcome]
               ELSE IF j[1] = a /\ t[j].state = "queued"
                    THEN [t[j] EXCEPT !.state = "done", !.outcome = "skipped"]
                    ELSE t[j]]
    IN
    /\ task[k].state = "queued"
    /\ \A b \in AlertIds : b < a => task[<<b, c>>].state # "queued"
    /\ IF CircuitOpen(c, now)
       THEN /\ task' = Abort(task, "skipped", task[k].attempts)
            /\ notificationLogs' = notificationLogs (+)
                  SetToBag({LogRow(a, c, "failed", task[k].attempts,
                                   "circuit open")})
            /\ UNCHANGED <<circuit, deadLetters>>
       ELSE /\ circuit' = [circuit EXCEPT ![c] = CircuitAfter(c, ok, now)]
            /\ IF ok
               THEN /\ task' = [task EXCEPT ![k].state = "done",
                                            ![k].attempts = n,
                                            ![k].outcome = "sent"]
                    /\ notificationLogs' = notificationLogs (+)
                          SetToBag({LogRow(a, c, "sent", n, "ok")})
                    /\ UNCHANGED deadLetters
               ELSE IF n >= MaxRetryAttempts
                    THEN /\ task' = Abort(task, "exhausted", n)
                         /\ notificationLogs' = notificationLogs (+)
                               SetToBag({LogRow(a, c, "failed", n, "timeout")})
                         /\ deadLetters' = deadLetters \cup {k}
                    ELSE /\ task' = [task EXCEPT ![k].attempts = n]
                         /\ UNCHANGED <<notificationLogs, deadLetters>>
    /\ UNCHANGED <<now, store, nEvents, pc, telemetry, pending, alert, stamp,
                   logged, evalVars, uiVars>>

\* Attempt that allows one more call than MaxRetryAttempts before it gives
\* the task up.
Attempt_oneMoreRetry(a, c, ok) ==
    LET k == <<a, c>>
        n == task[k].attempts + 1
    IN
    /\ task[k].state = "queued"
    /\ \A b \in AlertIds : b < a => task[<<b, c>>].state # "queued"
    /\ IF CircuitOpen(c, now) /\ task[k].attempts # MaxRetryAttempts
       THEN /\ task' = [task EXCEPT ![k].state = "done",
                                    ![k].outcome = "skipped"]
            /\ notificationLogs' = notificationLogs (+)
                  SetToBag({LogRow(a, c, "failed", task[k].attempts,
                                   "circuit open")})
            /\ UNCHANGED <<circuit, deadLetters>>
       ELSE /\ circuit' = [circuit EXCEPT ![c] = CircuitAfter(c, ok, now)]
            /\ IF ok
               THEN /\ task' = [task EXCEPT ![k].state = "done",
                                            ![k].attempts = n,
                                            ![k].outcome = "sent"]
                    /\ notificationLogs' = notificationLogs (+)
                          SetToBag({LogRow(a, c, "sent", n, "ok")})
                    /\ UNCHANGED deadLetters
               ELSE IF n > MaxRetryAttempts
                    THEN /\ task' = [task EXCEPT ![k].state = "done",
                                                 ![k].attempts = n,
                                                 ![k].outcome = "exhausted"]
                         /\ notificationLogs' = notificationLogs (+)
                               SetToBag({LogRow(a, c, "failed", n, "timeout")})
                         /\ deadLetters' = deadLetters \cup {k}
                    ELSE /\ task' = [task EXCEPT ![k].attempts = n]
                         /\ UNCHANGED <<notificationLogs, deadLetters>>
    /\ UNCHANGED <<now, store, nEvents, pc, telemetry, pending, alert, stamp,
                   logged, evalVars, uiVars>>

\* Attempt that writes a row of notification_logs for every provider call,
\* the calls that will be retried included.
Attempt_logsEveryCall(a, c, ok) ==
    LET k == <<a, c>>
        n == task[k].attempts + 1
    IN
    /\ task[k].state = "queued"
    /\ \A b \in AlertIds : b < a => task[<<b, c>>].state # "queued"
    /\ IF CircuitOpen(c, now)
       THEN /\ task' = [task EXCEPT ![k].state = "done",
                                    ![k].outcome = "skipped"]
            /\ notificationLogs' = notificationLogs (+)
                  SetToBag({LogRow(a, c, "failed", task[k].attempts,
                                   "circuit open")})
            /\ UNCHANGED <<circuit, deadLetters>>
       ELSE /\ circuit' = [circuit EXCEPT ![c] = CircuitAfter(c, ok, now)]
            /\ IF ok
               THEN /\ task' = [task EXCEPT ![k].state = "done",
                                            ![k].attempts = n,
                                            ![k].outcome = "sent"]
                    /\ notificationLogs' = notificationLogs (+)
                          SetToBag({LogRow(a, c, "sent", n, "ok")})
                    /\ UNCHANGED deadLetters
               ELSE /\ notificationLogs' = notificationLogs (+)
                          SetToBag({LogRow(a, c, "failed", n, "timeout")})
                    /\ IF n >= MaxRetryAttempts
                       THEN /\ task' = [task EXCEPT
                                          ![k].state = "done",
                                          ![k].attempts = n,
                                          ![k].outcome = "exhausted"]
                            /\ deadLetters' = deadLetters \cup {k}
                       ELSE /\ task' = [task EXCEPT ![k].attempts = n]
                            /\ UNCHANGED deadLetters
    /\ UNCHANGED <<now, store, nEvents, pc, telemetry, pending, alert, stamp,
                   logged, evalVars, uiVars>>

\* Attempt that marks the alert as suppressed when the delivery on a
\* channel is given up.
Attempt_suppressesAlert(a, c, ok) ==
    LET k == <<a, c>>
        n == task[k].attempts + 1
    IN
    /\ task[k].state = "queued"
    /\ \A b \in AlertIds : b < a => task[<<b, c>>].state # "queued"
    /\ IF CircuitOpen(c, now)
       THEN /\ task' = [task EXCEPT ![k].state = "done",
                                    ![k].outcome = "skipped"]
            /\ notificationLogs' = notificationLogs (+)
                  SetToBag({LogRow(a, c, "failed", task[k].attempts,
                                   "circuit open")})
            /\ UNCHANGED <<circuit, deadLetters>>
       ELSE /\ circuit' = [circuit EXCEPT ![c] = CircuitAfter(c, ok, now)]
            /\ IF ok
               THEN /\ task' = [task EXCEPT ![k].state = "done",
                                            ![k].attempts = n,
                                            ![k].outcome = "sent"]
                    /\ notificationLogs' = notificationLogs (+)
                          SetToBag({LogRow(a, c, "sent", n, "ok")})
                    /\ UNCHANGED deadLetters
               ELSE IF n >= MaxRetryAttempts
                    THEN /\ task' = [task EXCEPT ![k].state = "done",
                                                 ![k].attempts = n,
                                                 ![k].outcome = "exhausted"]
                         /\ notificationLogs' = notificationLogs (+)
                               SetToBag({LogRow(a, c, "failed", n, "timeout")})
                         /\ deadLetters' = deadLetters \cup {k}
                    ELSE /\ task' = [task EXCEPT ![k].attempts = n]
                         /\ UNCHANGED <<notificationLogs, deadLetters>>
    /\ alerts' = IF ~CircuitOpen(c, now) /\ ~ok /\ n >= MaxRetryAttempts
                 THEN {IF r.ID = a THEN [r EXCEPT !.Status = "suppressed"]
                                   ELSE r : r \in alerts}
                 ELSE alerts
    /\ UNCHANGED <<now, rules, notified, nEvents, pc, telemetry, pending,
                   alert, stamp, logged, evalVars, uiVars>>

\* One attempt of the task of alert a on channel c; the tasks of a channel
\* run in the order of their alerts.  An open circuit ends
\* the task without a provider call.  Otherwise the provider is called and
\* the call succeeds (ok) or times out: a success ends the task as sent; a
\* timeout ends it as failed and escalates it when it was the last attempt
\* allowed, and leaves it queued for its retry otherwise.
Attempt(a, c, ok) ==
    LET k == <<a, c>>
        n == task[k].attempts + 1
    IN
    /\ task[k].state = "queued"
    /\ \A b \in AlertIds : b < a => task[<<b, c>>].state # "queued"
    /\ IF CircuitOpen(c, now)
       THEN /\ task' = [task EXCEPT ![k].state = "done",
                                    ![k].outcome = "skipped"]
            /\ notificationLogs' = notificationLogs (+)
                  SetToBag({LogRow(a, c, "failed", task[k].attempts,
                                   "circuit open")})
            /\ UNCHANGED <<circuit, deadLetters>>
       ELSE /\ circuit' = [circuit EXCEPT ![c] = CircuitAfter(c, ok, now)]
            /\ IF ok
               THEN /\ task' = [task EXCEPT ![k].state = "done",
                                            ![k].attempts = n,
                                            ![k].outcome = "sent"]
                    /\ notificationLogs' = notificationLogs (+)
                          SetToBag({LogRow(a, c, "sent", n, "ok")})
                    /\ UNCHANGED deadLetters
               ELSE IF n >= MaxRetryAttempts
                    THEN /\ task' = [task EXCEPT ![k].state = "done",
                                                 ![k].attempts = n,
                                                 ![k].outcome = "exhausted"]
                         /\ notificationLogs' = notificationLogs (+)
                               SetToBag({LogRow(a, c, "failed", n, "timeout")})
                         /\ deadLetters' = deadLetters \cup {k}
                    ELSE /\ task' = [task EXCEPT ![k].attempts = n]
                         /\ UNCHANGED <<notificationLogs, deadLetters>>
    /\ UNCHANGED <<now, store, nEvents, pc, telemetry, pending, alert, stamp,
                   logged, evalVars, uiVars>>

InitDispatch ==
    /\ EngineInit([i \in RuleIds |->
                     Rule(i, "D1", "selected_devices", {"D1"}, "temperature",
                          ">", 50, "active", DefaultCooldown)])
    /\ DispatchInit
    /\ UiInit
    /\ evalIn = NoEval
    /\ evalOut = {}

NextDispatch ==
    \/ Tick
    \/ \E chs \in ChannelSets : Dispatch(chs)
    \/ \E a \in AlertIds, c \in Channels, ok \in BOOLEAN : Attempt(a, c, ok)

SpecDispatch == InitDispatch /\ [][NextDispatch]_vars

\* ------------------------------------------------------------ alerts page
\* AlertsPage lists the alerts of a device, one page at a time and under a
\* status filter, and lets the operator acknowledge and resolve them.  The
\* requests of the page are answered by the alert API of the rule engine
\* service.

\* Everything but the alerts table, the page and its requests.
pageFrame == <<now, rules, notified, nEvents, pc, telemetry, pending, alert,
               stamp, logged, evalVars, dispVars>>

\* The options of the status filter the operator picks in the model (the
\* select also offers acknowledged and resolved).
StatusFilters == {"all", "open"}

\* The operator acts while fewer requests than MaxCalls are unanswered.
Responsive == Cardinality(calls) < MaxCalls

\* getDeviceAlerts(deviceId, {page, pageSize, status}).
FetchCall(page, status) ==
    [op |-> "getDeviceAlerts", alertId |-> 0, page |-> page,
     status |-> status]

\* acknowledgeAlert(a), sent by a handleAcknowledge whose fetchAlerts asks
\* for the page and the status of the render it was clicked in.
AcknowledgeCall(a, page, status) ==
    [op |-> "acknowledgeAlert", alertId |-> a, page |-> page,
     status |-> status]

ResolveCall(a, page, status) ==
    [op |-> "resolveAlert", alertId |-> a, page |-> page, status |-> status]

\* The page renders the spinner instead of the table.
loading == alertsPage.loading

\* The status column of the row of alert a ("none": no such row).
StatusOf(a) ==
    IF \E r \in alerts : r.ID = a
    THEN (CHOOSE r \in alerts : r.ID = a).Status
    ELSE "none"

\* UPDATE alerts SET status = st WHERE id = a.
SetStatus(a, st) ==
    {IF r.ID = a THEN [r EXCEPT !.Status = st] ELSE r : r \in alerts}

\* The ids of the alerts of the store that pass the status filter.
Matching(status) ==
    {a \in PageAlertIds :
       /\ StatusOf(a) # "none"
       /\ status = "all" \/ StatusOf(a) = status}

\* The position of alert a among the matching alerts, in the order of the
\* list.
Position(a, status) == Cardinality({b \in Matching(status) : b <= a})

\* The answer of GET /alerts to the request c: the rows of the page asked
\* for and the number of pages.
PageRows(c) ==
    [a \in PageAlertIds |->
       IF /\ a \in Matching(c.status)
          /\ Position(a, c.status) > (c.page - 1) * pageSize
          /\ Position(a, c.status) <= c.page * pageSize
       THEN StatusOf(a)
       ELSE "none"]

TotalPages(c) ==
    (Cardinality(Matching(c.status)) + pageSize - 1) \div pageSize

\* handleRuleTrigger stores an alert of the device.
AlertStored ==
    LET a == Cardinality(alerts) + 1 IN
    /\ a \in PageAlertIds
    /\ alerts' = alerts \cup
                   {[BuildAlert(rules[1], Payload("D1", 0, 55), now)
                       EXCEPT !.ID = a]}
    /\ UNCHANGED <<pageFrame, uiVars>>

\* The state fetchAlerts sets before its await.
Fetching(st) == [st EXCEPT !.loading = TRUE, !.error = FALSE]

\* fetchAlerts up to its await, run by the effect when the page is mounted.
fetchAlerts ==
    /\ alertsPage.loading
    /\ calls = {}
    /\ calls' = {FetchCall(alertsPage.page, alertsPage.statusFilter)}
    /\ alertsPage' = Fetching(alertsPage)
    /\ UNCHANGED <<pageFrame, alerts, form, apiRules, otherPages>>

\* getDeviceAlerts answers and fetchAlerts ends: the table shows the rows
\* of the answer and the page count of the answer, or the page shows the
\* error.
FetchReturns(c, ok) ==
    /\ c \in calls
    /\ c.op = "getDeviceAlerts"
    /\ calls' = calls \ {c}
    /\ alertsPage' = IF ok
                     THEN [alertsPage EXCEPT !.alerts = PageRows(c),
                                             !.totalPages = TotalPages(c),
                                             !.loading = FALSE]
                     ELSE [alertsPage EXCEPT !.error = TRUE,
                                             !.loading = FALSE]
    /\ UNCHANGED <<pageFrame, alerts, form, apiRules, otherPages>>

\* The filter, and below it the table or the empty state, are rendered.
PageShown == ~loading /\ ~alertsPage.error /\ Responsive

\* The table, with its buttons and the pagination, is rendered.
TableShown ==
    /\ PageShown
    /\ \E a \in PageAlertIds : alertsPage.alerts[a] # "none"

\* The operator picks another status filter: the effects run fetchAlerts
\* for the new filter and set page to 1, and, when that changed page, run
\* fetchAlerts again for page 1.
setStatusFilter(f) ==
    /\ PageShown
    /\ f # alertsPage.statusFilter
    /\ alertsPage' = [Fetching(alertsPage) EXCEPT !.statusFilter = f,
                                                  !.page = 1]
    /\ calls' = calls \cup {FetchCall(alertsPage.page, f), FetchCall(1, f)}
    /\ UNCHANGED <<pageFrame, alerts, form, apiRules, otherPages>>

\* The operator clicks Previous (disabled on page 1); the effect runs
\* fetchAlerts for the new page.
Previous ==
    LET p == IF alertsPage.page - 1 >= 1 THEN alertsPage.page - 1 ELSE 1 IN
    /\ TableShown
    /\ alertsPage.page # 1
    /\ alertsPage' = [Fetching(alertsPage) EXCEPT !.page = p]
    /\ calls' = calls \cup {FetchCall(p, alertsPage.statusFilter)}
    /\ UNCHANGED <<pageFrame, alerts, form, apiRules, otherPages>>

\* The operator clicks Next (disabled from the last page on); the effect
\* runs fetchAlerts for the new page.
NextPage ==
    LET p == IF alertsPage.page + 1 <= alertsPage.totalPages
             THEN alertsPage.page + 1
             ELSE alertsPage.totalPages
    IN
    /\ TableShown
    /\ ~(alertsPage.page >= alertsPage.totalPages)
    /\ alertsPage' = [Fetching(alertsPage) EXCEPT !.page = p]
    /\ calls' = calls \cup {FetchCall(p, alertsPage.statusFilter)}
    /\ UNCHANGED <<pageFrame, alerts, form, apiRules, otherPages>>

\* handleAcknowledge with the button shown on every row of the table.
handleAcknowledge_anyStatus(a) ==
    /\ TableShown
    /\ alertsPage.alerts[a] # "none"
    /\ calls' = calls \cup
                  {AcknowledgeCall(a, alertsPage.page,
                                   alertsPage.statusFilter)}
    /\ UNCHANGED <<pageFrame, alerts, alertsPage, form, apiRules,
                   otherPages>>

\* The operator clicks Acknowledge, rendered on the rows the table shows
\* as open; handleAcknowledge sends the request.
handleAcknowledge(a) ==
    /\ TableShown
    /\ alertsPage.alerts[a] = "open"
    /\ calls' = calls \cup
                  {AcknowledgeCall(a, alertsPage.page,
                                   alertsPage.statusFilter)}
    /\ UNCHANGED <<pageFrame, alerts, alertsPage, form, apiRules,
                   otherPages>>

\* The operator clicks Resolve, rendered on the rows the table does not
\* show as resolved; handleResolve sends the request.
handleResolve(a) ==
    /\ TableShown
    /\ alertsPage.alerts[a] \notin {"none", "resolved"}
    /\ calls' = calls \cup
                  {ResolveCall(a, alertsPage.page, alertsPage.statusFilter)}
    /\ UNCHANGED <<pageFrame, alerts, alertsPage, form, apiRules,
                   otherPages>>

\* The alert API answers PATCH /alerts/a/acknowledge: an open alert
\* becomes acknowledged and handleAcknowledge goes on to fetchAlerts; any
\* other alert, or a failure (ok = FALSE), is an HTTP error, on which
\* handleAcknowledge shows its dialog and ends.
AcknowledgeReturns(c, ok) ==
    /\ c \in calls
    /\ c.op = "acknowledgeAlert"
    /\ IF ok /\ StatusOf(c.alertId) = "open"
       THEN /\ alerts' = SetStatus(c.alertId, "acknowledged")
            /\ calls' = (calls \ {c}) \cup {FetchCall(c.page, c.status)}
            /\ alertsPage' = Fetching(alertsPage)
       ELSE /\ calls' = calls \ {c}
            /\ UNCHANGED <<alerts, alertsPage>>
    /\ UNCHANGED <<pageFrame, form, apiRules, otherPages>>

\* The alert API answers PATCH /alerts/a/resolve: an open or acknowledged
\* alert becomes resolved and handleResolve goes on to fetchAlerts; a
\* resolved alert, or a failure, is an HTTP error.
ResolveReturns(c, ok) ==
    /\ c \in calls
    /\ c.op = "resolveAlert"
    /\ IF ok /\ StatusOf(c.alertId) \in {"open", "acknowledged"}
       THEN /\ alerts' = SetStatus(c.alertId, "resolved")
            /\ calls' = (calls \ {c}) \cup {FetchCall(c.page, c.status)}
            /\ alertsPage' = Fetching(alertsPage)
       ELSE /\ calls' = calls \ {c}
            /\ UNCHANGED <<alerts, alertsPage>>
    /\ UNCHANGED <<pageFrame, form, apiRules, otherPages>>

InitAlertsPage ==
    /\ EngineInit([i \in RuleIds |->
                     Rule(i, "D1", "selected_devices", {"D1"}, "temperature",
                          ">", 50, "active", DefaultCooldown)])
    /\ DispatchInit
    /\ UiInit
    /\ evalIn = NoEval
    /\ evalOut = {}

NextAlertsPage ==
    \/ AlertStored
    \/ fetchAlerts
    \/ \E c \in calls, ok \in BOOLEAN : FetchReturns(c, ok)
    \/ \E f \in StatusFilters : setStatusFilter(f)
    \/ Previous
    \/ NextPage
    \/ \E a \in PageAlertIds : handleAcknowledge(a)
    \/ \E a \in PageAlertIds : handleResolve(a)
    \/ \E c \in calls, ok \in BOOLEAN : AcknowledgeReturns(c, ok)
    \/ \E c \in calls, ok \in BOOLEAN : ResolveReturns(c, ok)

SpecAlertsPage == InitAlertsPage /\ [][NextAlertsPage]_vars

\* ------------------------------------------------------ create-rule page
\* CreateRulePage: the form that creates a rule through createRule and,
\* when "Enable rule" is unchecked, pauses it through updateRuleStatus.

\* Everything but the page, its requests and the rows behind the rule API.
formFrame == <<pageFrame, alerts, alertsPage, otherPages>>

\* The texts typed as rule name: empty, blank, and a name with blanks
\* around it.
RuleNames == {<< >>, <<" ">>, <<" ", "r", " ">>}

\* The values the threshold input (type="number") hands to setThreshold:
\* "" when it holds no number, the numeral otherwise.
ThresholdTexts == {"", "0", "50"}

\* The channels of notificationOptions shown in the model.
FormChannels == Channels

RECURSIVE trimStart(_)
trimStart(s) ==
    IF s # << >> /\ Head(s) = " " THEN trimStart(Tail(s)) ELSE s

RECURSIVE trimEnd(_)
trimEnd(s) ==
    IF s # << >> /\ s[Len(s)] = " "
    THEN trimEnd(SubSeq(s, 1, Len(s) - 1))
    ELSE s

\* String.prototype.trim.
trim(s) == trimEnd(trimStart(s))

\* Number(text): {n} for the number n, {} for NaN.  The empty text
\* converts to 0.
Number(text) ==
    CASE text = ""   -> {0}
      [] text = "0"  -> {0}
      [] text = "50" -> {50}
      [] OTHER       -> {}

isNaN(n) == n = {}

\* The form is rendered (the page renders the error alone once one is
\* set), and its inputs and its button are enabled.
FormEnabled ==
    /\ form.route = "/rules/new"
    /\ ~(form.error # "" /\ ~form.loading)
    /\ ~form.loading

CreateRuleCall(name, threshold, channels) ==
    [op |-> "createRule", rule_name |-> name, threshold |-> threshold,
     notification_channels |-> channels]

UpdateRuleStatusCall(id, status) ==
    [op |-> "updateRuleStatus", rule_id |-> id, status |-> status]

setRuleName(v) ==
    /\ FormEnabled
    /\ form' = [form EXCEPT !.ruleName = v]
    /\ UNCHANGED <<formFrame, calls, apiRules>>

setThreshold(v) ==
    /\ FormEnabled
    /\ form' = [form EXCEPT !.threshold = v]
    /\ UNCHANGED <<formFrame, calls, apiRules>>

handleNotificationChange(channel) ==
    /\ FormEnabled
    /\ form' = [form EXCEPT
                  !.notificationChannels =
                      IF channel \in form.notificationChannels
                      THEN form.notificationChannels \ {channel}
                      ELSE form.notificationChannels \cup {channel}]
    /\ UNCHANGED <<formFrame, calls, apiRules>>

setEnabled(v) ==
    /\ FormEnabled
    /\ form' = [form EXCEPT !.enabled = v]
    /\ UNCHANGED <<formFrame, calls, apiRules>>

\* handleSubmit that does not look at the notification channels.
handleSubmit_anyChannels ==
    /\ FormEnabled
    /\ IF trim(form.ruleName) = << >>
       THEN /\ form' = [form EXCEPT !.error = "Rule name is required"]
            /\ UNCHANGED calls
       ELSE IF form.threshold = "" \/ isNaN(Number(form.threshold))
       THEN /\ form' = [form EXCEPT
                          !.error = "Threshold must be a valid number"]
            /\ UNCHANGED calls
       ELSE /\ form' = [form EXCEPT !.loading = TRUE, !.error = ""]
            /\ calls' = calls \cup
                  {CreateRuleCall(trim(form.ruleName),
                                  CHOOSE n \in Number(form.threshold) : TRUE,
                                  form.notificationChannels)}
    /\ UNCHANGED <<formFrame, apiRules>>

\* handleSubmit up to its first await: the three checks, then the
\* createRule request.
handleSubmit ==
    /\ FormEnabled
    /\ IF trim(form.ruleName) = << >>
       THEN /\ form' = [form EXCEPT !.error = "Rule name is required"]
            /\ UNCHANGED calls
       ELSE IF form.threshold = "" \/ isNaN(Number(form.threshold))
       THEN /\ form' = [form EXCEPT
                          !.error = "Threshold must be a valid number"]
            /\ UNCHANGED calls
       ELSE IF Cardinality(form.notificationChannels) = 0
       THEN /\ form' = [form EXCEPT
                          !.error =
                            "At least one notification channel is required"]
            /\ UNCHANGED calls
       ELSE /\ form' = [form EXCEPT !.loading = TRUE, !.error = ""]
            /\ calls' = calls \cup
                  {CreateRuleCall(trim(form.ruleName),
                                  CHOOSE n \in Number(form.threshold) : TRUE,
                                  form.notificationChannels)}
    /\ UNCHANGED <<formFrame, apiRules>>

\* POST /rules is answered and handleSubmit goes on.  On success the rule
\* exists, active; the page then sends updateRuleStatus when the rule was
\* not to be enabled, and navigates to /rules otherwise.  On failure the
\* error is set.
CreateRuleReturns(ok) ==
    \E c \in calls :
        /\ c.op = "createRule"
        /\ IF ok
           THEN LET id == Cardinality(apiRules) + 1 IN
                /\ apiRules' = apiRules \cup
                     {[rule_id |-> id, rule_name |-> c.rule_name,
                       threshold |-> c.threshold,
                       notification_channels |-> c.notification_channels,
                       status |-> "active"]}
                /\ IF ~form.enabled
                   THEN /\ calls' = (calls \ {c}) \cup
                                      {UpdateRuleStatusCall(id, "paused")}
                        /\ form' = [form EXCEPT !.created = id]
                   ELSE /\ calls' = calls \ {c}
                        /\ form' = [form EXCEPT !.created = id,
                                                !.route = "/rules",
                                                !.loading = FALSE]
           ELSE /\ calls' = calls \ {c}
                /\ form' = [form EXCEPT !.error = "HTTP 500",
                                        !.loading = FALSE]
                /\ UNCHANGED apiRules
    /\ UNCHANGED formFrame

\* PATCH /rules/id/status is answered and handleSubmit ends: on success
\* the rule has the status asked for and the page navigates to /rules; on
\* failure the error is set and the page stays.
UpdateRuleStatusReturns(ok) ==
    \E c \in calls :
        /\ c.op = "updateRuleStatus"
        /\ calls' = calls \ {c}
        /\ IF ok
           THEN /\ apiRules' = {IF r.rule_id = c.rule_id
                                THEN [r EXCEPT !.status = c.status]
                                ELSE r : r \in apiRules}
                /\ form' = [form EXCEPT !.route = "/rules",
                                        !.loading = FALSE]
           ELSE /\ form' = [form EXCEPT !.error = "HTTP 500",
                                        !.loading = FALSE]
                /\ UNCHANGED apiRules
    /\ UNCHANGED formFrame

\* The page is opened anew after it showed its error or navigated away.
OpenCreateRulePage ==
    /\ ~form.loading
    /\ form.error # "" \/ form.route = "/rules"
    /\ Cardinality(apiRules) < MaxRules
    /\ form' = NewForm
    /\ UNCHANGED <<formFrame, calls, apiRules>>

InitCreateRule ==
    /\ EngineInit([i \in RuleIds |->
                     Rule(i, "D1", "selected_devices", {"D1"}, "temperature",
                          ">", 50, "active", DefaultCooldown)])
    /\ DispatchInit
    /\ UiInit
    /\ evalIn = NoEval
    /\ evalOut = {}

NextCreateRule ==
    \/ \E v \in RuleNames : setRuleName(v)
    \/ \E v \in ThresholdTexts : setThreshold(v)
    \/ \E channel \in FormChannels : handleNotificationChange(channel)
    \/ \E v \in BOOLEAN : setEnabled(v)
    \/ handleSubmit
    \/ \E ok \in BOOLEAN : CreateRuleReturns(ok)
    \/ \E ok \in BOOLEAN : UpdateRuleStatusReturns(ok)
    \/ OpenCreateRulePage

SpecCreateRule == InitCreateRule /\ [][NextCreateRule]_vars

\* -------------------------------------------------------------- rules page
\* RulesPage lists the rules and lets the operator pause and resume them.

\* Everything but the page, its requests and the rows behind the rule API.
rulesFrame == <<pageFrame, alerts, alertsPage, form, devicePage, intervals,
               requested>>

ListRulesCall == [op |-> "listRules", rule_id |-> 0, status |-> ""]

\* The status column of the row of rule i ("none": no such row).
RuleStatusOf(i) ==
    IF \E r \in apiRules : r.rule_id = i
    THEN (CHOOSE r \in apiRules : r.rule_id = i).status
    ELSE "none"

\* The status toggleRule asks for, from the status of the row clicked.
newStatus(status) == IF status = "active" THEN "paused" ELSE "active"

\* load up to its await: run by the effect on mount.
load ==
    /\ ListRulesCall \notin calls
    /\ calls' = calls \cup {ListRulesCall}
    /\ rulesPage' = [rulesPage EXCEPT !.loading = TRUE, !.error = FALSE]
    /\ UNCHANGED <<rulesFrame, apiRules>>

\* listRules answers and load ends: the table shows the rows behind the
\* API (the page asks for no status in particular), or the page shows
\* the error.
ListRulesReturns(ok) ==
    /\ ListRulesCall \in calls
    /\ calls' = calls \ {ListRulesCall}
    /\ rulesPage' = IF ok
                    THEN [rulesPage EXCEPT
                            !.rules = [i \in ListedRuleIds |->
                                         RuleStatusOf(i)],
                            !.loading = FALSE]
                    ELSE [rulesPage EXCEPT !.error = TRUE,
                                           !.loading = FALSE]
    /\ UNCHANGED <<rulesFrame, apiRules>>

\* The operator clicks Pause / Resume on the row of rule i; toggleRule
\* sends the request.
toggleRule(i) ==
    /\ ~rulesPage.loading
    /\ ~rulesPage.error
    /\ rulesPage.rules[i] # "none"
    /\ calls' = calls \cup
                  {UpdateRuleStatusCall(i, newStatus(rulesPage.rules[i]))}
    /\ UNCHANGED <<rulesFrame, apiRules, rulesPage>>

\* PATCH /rules/i/status is answered: on success the rule has the status
\* asked for and toggleRule goes on to load; on failure updateRuleStatus
\* throws and toggleRule ends there.
ToggleReturns(ok) ==
    \E c \in calls :
        /\ c.op = "updateRuleStatus"
        /\ IF ok
           THEN /\ apiRules' = {IF r.rule_id = c.rule_id
                                THEN [r EXCEPT !.status = c.status]
                                ELSE r : r \in apiRules}
                /\ calls' = (calls \ {c}) \cup {ListRulesCall}
                /\ rulesPage' = [rulesPage EXCEPT !.loading = TRUE,
                                                  !.error = FALSE]
           ELSE /\ calls' = calls \ {c}
                /\ UNCHANGED <<apiRules, rulesPage>>
    /\ UNCHANGED rulesFrame

\* The rows behind the rule API when the page is opened: every rule in one
\* of the three statuses.
InitRulesPage ==
    /\ EngineInit([i \in RuleIds |->
                     Rule(i, "D1", "selected_devices", {"D1"}, "temperature",
                          ">", 50, "active", DefaultCooldown)])
    /\ DispatchInit
    /\ alertsPage = NewAlertsPage
    /\ form = NewForm
    /\ rulesPage = NewRulesPage
    /\ DevicePageInit
    /\ calls = {ListRulesCall}
    /\ \E st \in [ListedRuleIds -> {"active", "paused", "archived"}] :
         apiRules = {[rule_id |-> i, rule_name |-> <<"r">>, threshold |-> 50,
                      notification_channels |-> {"email"},
                      status |-> st[i]] : i \in ListedRuleIds}
    /\ evalIn = NoEval
    /\ evalOut = {}

NextRulesPage ==
    \/ load
    \/ \E ok \in BOOLEAN : ListRulesReturns(ok)
    \/ \E i \in ListedRuleIds : toggleRule(i)
    \/ \E ok \in BOOLEAN : ToggleReturns(ok)

SpecRulesPage == InitRulesPage /\ [][NextRulesPage]_vars

\* --------------------------------------- device analytics page: the export
\* DeviceAnalyticsPage.onExportAndRefresh starts an export, asks for its
\* status every two seconds and reloads the datasets when it completed.

\* Everything but the page, its timers, its requests and the analytics
\* service.
deviceFrame == <<pageFrame, alerts, alertsPage, form, apiRules, rulesPage>>

\* setInterval(..., 2000), in milliseconds
PollInterval == 2000

\* Date.now() - startedAt > 60000, in milliseconds
ExportTimeout == 60000

\* The requests of the page in flight are told apart by a slot.
Slots == 1 .. MaxTicks

Busy == {c.slot : c \in calls}

FreeSlot == CHOOSE s \in Slots : s \notin Busy

RunExportCall(p) == [op |-> "runExport", poll |-> p, slot |-> FreeSlot]

ExportStatusCall(p) ==
    [op |-> "getExportStatus", poll |-> p, slot |-> FreeSlot]

\* The tick that asked for the status goes on to ask for the datasets.
DatasetsCall(c) ==
    [op |-> "getAvailableDatasets", poll |-> c.poll, slot |-> c.slot]

\* What the status of an export reads ("running": any status that is
\* neither completed nor failed).
ExportStatuses == {"running", "completed", "failed"}

\* Date.now() - startedAt > 60000 for the export p.
TimedOut(p) == intervals.elapsed[p] > ExportTimeout

\* The page shows its buttons when no error is shown, and enables them
\* when nothing is running.
ButtonsEnabled == devicePage.error = "" /\ ~devicePage.running

\* The operator clicks "Export latest data".
onExportAndRefresh ==
    /\ ButtonsEnabled
    /\ intervals.exports < MaxExports
    /\ Busy # Slots
    /\ devicePage' = [devicePage EXCEPT !.error = "", !.running = TRUE]
    /\ intervals' = [intervals EXCEPT !.exports = @ + 1]
    /\ calls' = calls \cup {RunExportCall(intervals.exports + 1)}
    /\ UNCHANGED <<requested, deviceFrame>>

\* runExport answers: the poll of the export is set, or the click ends
\* with the error.
RunExportReturns(c, ok) ==
    /\ c \in calls
    /\ c.op = "runExport"
    /\ calls' = calls \ {c}
    /\ IF ok
       THEN /\ intervals' = [intervals EXCEPT !.polls = @ \cup {c.poll},
                                              !.elapsed[c.poll] = 0]
            /\ UNCHANGED devicePage
       ELSE /\ devicePage' = [devicePage EXCEPT !.running = FALSE,
                                                !.error = "Export failed"]
            /\ UNCHANGED intervals
    /\ UNCHANGED <<requested, deviceFrame>>

\* Two seconds pass for the export p: its poll, when set, asks for the
\* status; a tick of it that still waits for an answer sees the time go by.
Elapse(p) ==
    /\ IF p \in intervals.polls
       THEN /\ Busy # Slots
            /\ calls' = calls \cup {ExportStatusCall(p)}
       ELSE /\ \E c \in calls : c.poll = p /\ c.op # "runExport"
            /\ intervals.elapsed[p] <= ExportTimeout
            /\ UNCHANGED calls
    /\ intervals' =
         [intervals EXCEPT !.elapsed[p] =
            IF @ <= ExportTimeout THEN @ + PollInterval ELSE @]
    /\ UNCHANGED <<devicePage, requested, deviceFrame>>

\* ExportStatusReturns without the timeout test.
ExportStatusReturns_noTimeout(c, s) ==
    /\ c \in calls
    /\ c.op = "getExportStatus"
    /\ CASE s = "throw" ->
              /\ calls' = calls \ {c}
              /\ intervals' = [intervals EXCEPT !.polls = @ \ {c.poll}]
              /\ devicePage' =
                   [devicePage EXCEPT
                      !.running = FALSE,
                      !.error = "Failed to check export status"]
         [] s = "completed" ->
              /\ calls' = (calls \ {c}) \cup {DatasetsCall(c)}
              /\ intervals' = [intervals EXCEPT !.polls = @ \ {c.poll}]
              /\ UNCHANGED devicePage
         [] s = "failed" ->
              /\ calls' = calls \ {c}
              /\ intervals' = [intervals EXCEPT !.polls = @ \ {c.poll}]
              /\ devicePage' =
                   [devicePage EXCEPT !.running = FALSE,
                                      !.error = "Export failed"]
         [] OTHER ->
              /\ calls' = calls \ {c}
              /\ UNCHANGED <<intervals, devicePage>>
    /\ UNCHANGED <<requested, deviceFrame>>

\* getExportStatus answers a tick with the status s or throws.
ExportStatusReturns(c, s) ==
    /\ c \in calls
    /\ c.op = "getExportStatus"
    /\ CASE s = "throw" ->
              /\ calls' = calls \ {c}
              /\ intervals' = [intervals EXCEPT !.polls = @ \ {c.poll}]
              /\ devicePage' =
                   [devicePage EXCEPT
                      !.running = FALSE,
                      !.error = "Failed to check export status"]
         [] s = "completed" ->
              /\ calls' = (calls \ {c}) \cup {DatasetsCall(c)}
              /\ intervals' = [intervals EXCEPT !.polls = @ \ {c.poll}]
              /\ UNCHANGED devicePage
         [] s = "failed" ->
              /\ calls' = calls \ {c}
              /\ intervals' = [intervals EXCEPT !.polls = @ \ {c.poll}]
              /\ devicePage' =
                   [devicePage EXCEPT
                      !.running = FALSE,
                      !.error = IF TimedOut(c.poll) THEN "Export timeout"
                                ELSE "Export failed"]
         [] OTHER ->
              /\ calls' = calls \ {c}
              /\ IF TimedOut(c.poll)
                 THEN /\ intervals' =
                           [intervals EXCEPT !.polls = @ \ {c.poll}]
                      /\ devicePage' =
                           [devicePage EXCEPT !.running = FALSE,
                                              !.error = "Export timeout"]
                 ELSE UNCHANGED <<intervals, devicePage>>
    /\ UNCHANGED <<requested, deviceFrame>>

\* getAvailableDatasets answers the tick that saw the export completed:
\* the datasets are replaced and the tick goes on to its timeout test, or
\* the request throws.
DatasetsReturns(c, ok) ==
    /\ c \in calls
    /\ c.op = "getAvailableDatasets"
    /\ calls' = calls \ {c}
    /\ intervals' = [intervals EXCEPT !.polls = @ \ {c.poll}]
    /\ devicePage' =
         IF ok
         THEN [devicePage EXCEPT
                 !.datasets = c.poll,
                 !.running = FALSE,
                 !.error = IF TimedOut(c.poll) THEN "Export timeout" ELSE @]
         ELSE [devicePage EXCEPT !.running = FALSE, !.error = "HTTP 500"]
    /\ UNCHANGED <<requested, deviceFrame>>

InitExport ==
    /\ EngineInit([i \in RuleIds |->
                     Rule(i, "D1", "selected_devices", {"D1"}, "temperature",
                          ">", 50, "active", DefaultCooldown)])
    /\ DispatchInit
    /\ UiInit
    /\ evalIn = NoEval
    /\ evalOut = {}

ExportAnswers ==
    \/ \E c \in calls, ok \in BOOLEAN : RunExportReturns(c, ok)
    \/ \E c \in calls, s \in ExportStatuses \cup {"throw"} :
         ExportStatusReturns(c, s)
    \/ \E c \in calls, ok \in BOOLEAN : DatasetsReturns(c, ok)

NextExport ==
    \/ onExportAndRefresh
    \/ \E p \in ExportIds : Elapse(p)
    \/ ExportAnswers

SpecExport == InitExport /\ [][NextExport]_vars

\* The browser fires a timer that is set and every request is answered
\* or fails.
SpecExportFair ==
    /\ InitExport
    /\ [][NextExport]_vars
    /\ \A p \in ExportIds : WF_vars(Elapse(p))
    /\ WF_vars(ExportAnswers)

\* ------------------------------------ device analytics page: analytics jobs
\* DeviceAnalyticsPage.onRun submits a job; an effect on [jobId,
\* analysisType] asks for its status every two seconds and fetches the
\* results when it completed; an effect on [analysisType, supportedModels]
\* clears the job and the results when the analysis type is changed.

JobSlots == 1 .. MaxCalls

FreeJobSlot == CHOOSE s \in JobSlots : s \notin Busy

\* What the status of a job reads ("running": any status that is neither
\* completed nor failed).
JobStatuses == {"running", "completed", "failed"}

RunAnalyticsCall ==
    [op |-> "runAnalytics", jobId |-> 0,
     analysisType |-> devicePage.analysisType, slot |-> FreeJobSlot]

\* A tick of the timer of the effect: jobId and analysisType are those of
\* the render that set the timer.
AnalyticsStatusCall ==
    [op |-> "getAnalyticsStatus", jobId |-> intervals.timer,
     analysisType |-> devicePage.analysisType, slot |-> FreeJobSlot]

\* The tick that asked for the status goes on to ask for the results.
AnalyticsResultsCall(c) == [c EXCEPT !.op = "getAnalyticsResults"]

NoPoints == [t \in AnalyticsType |-> 0]

\* clearInterval(timer) by a tick of the timer of job j.
ClearTimer(j) ==
    [intervals EXCEPT !.timer = IF @ = j THEN 0 ELSE @]

\* The operator clicks "Run analytics" (a dataset and a model are
\* selected).
onRun ==
    /\ ButtonsEnabled
    /\ intervals.jobs + Cardinality({c \in calls : c.op = "runAnalytics"})
         < MaxJobs
    /\ Busy # JobSlots
    /\ devicePage' = [devicePage EXCEPT !.error = "", !.running = TRUE,
                                        !.status = "", !.points = NoPoints]
    /\ calls' = calls \cup {RunAnalyticsCall}
    /\ UNCHANGED <<intervals, requested, deviceFrame>>

\* runAnalytics answers with the id of the job, which the polling effect
\* takes up under the analysis type now selected, or throws.
RunAnalyticsReturns(c, ok) ==
    /\ c \in calls
    /\ c.op = "runAnalytics"
    /\ calls' = calls \ {c}
    /\ IF ok
       THEN /\ devicePage' = [devicePage EXCEPT !.jobId = intervals.jobs + 1,
                                                !.status = "running"]
            /\ intervals' = [intervals EXCEPT !.jobs = @ + 1,
                                              !.timer = intervals.jobs + 1]
       ELSE /\ devicePage' = [devicePage EXCEPT !.running = FALSE,
                                                !.error = "HTTP 500"]
            /\ UNCHANGED intervals
    /\ UNCHANGED <<requested, deviceFrame>>

\* The operator picks another analysis type: the model-list effect clears
\* the results, the job and the status, and the polling effect clears its
\* timer.
setAnalysisType(t) ==
    /\ devicePage.error = ""
    /\ t # devicePage.analysisType
    /\ devicePage' = [devicePage EXCEPT !.analysisType = t,
                                        !.points = NoPoints,
                                        !.jobId = 0,
                                        !.status = ""]
    /\ intervals' = [intervals EXCEPT !.timer = 0]
    /\ UNCHANGED <<calls, requested, deviceFrame>>

\* Two seconds pass: the timer of the polling effect asks for the status
\* of its job.
PollJob ==
    /\ intervals.timer # 0
    /\ Busy # JobSlots
    /\ calls' = calls \cup {AnalyticsStatusCall}
    /\ UNCHANGED <<devicePage, intervals, requested, deviceFrame>>

\* getAnalyticsStatus answers a tick with the status s or throws.
AnalyticsStatusReturns(c, s) ==
    /\ c \in calls
    /\ c.op = "getAnalyticsStatus"
    /\ CASE s = "throw" ->
              /\ calls' = calls \ {c}
              /\ intervals' = ClearTimer(c.jobId)
              /\ devicePage' = [devicePage EXCEPT !.running = FALSE,
                                                  !.error = "HTTP 500"]
              /\ UNCHANGED requested
         [] s = "completed" ->
              /\ calls' = (calls \ {c}) \cup {AnalyticsResultsCall(c)}
              /\ intervals' = ClearTimer(c.jobId)
              /\ devicePage' = [devicePage EXCEPT !.status = s]
              /\ requested' = [requested EXCEPT ![c.jobId] = @ + 1]
         [] s = "failed" ->
              /\ calls' = calls \ {c}
              /\ intervals' = ClearTimer(c.jobId)
              /\ devicePage' =
                   [devicePage EXCEPT !.status = s,
                                      !.running = FALSE,
                                      !.error = "Analytics job failed"]
              /\ UNCHANGED requested
         [] OTHER ->
              /\ calls' = calls \ {c}
              /\ devicePage' = [devicePage EXCEPT !.status = s]
              /\ UNCHANGED <<intervals, requested>>
    /\ UNCHANGED deviceFrame

\* getAnalyticsResults answers the tick that saw its job completed: the
\* series of the tick's analysis type is set, or the request throws.
AnalyticsResultsReturns(c, ok) ==
    /\ c \in calls
    /\ c.op = "getAnalyticsResults"
    /\ calls' = calls \ {c}
    /\ IF ok
       THEN /\ devicePage' =
                 [devicePage EXCEPT !.points[c.analysisType] = c.jobId,
                                    !.running = FALSE]
            /\ UNCHANGED intervals
       ELSE /\ devicePage' = [devicePage EXCEPT !.running = FALSE,
                                                !.error = "HTTP 500"]
            /\ intervals' = ClearTimer(c.jobId)
    /\ UNCHANGED <<requested, deviceFrame>>

InitAnalytics ==
    /\ EngineInit([i \in RuleIds |->
                     Rule(i, "D1", "selected_devices", {"D1"}, "temperature",
                          ">", 50, "active", DefaultCooldown)])
    /\ DispatchInit
    /\ UiInit
    /\ evalIn = NoEval
    /\ evalOut = {}

NextAnalytics ==
    \/ onRun
    \/ \E c \in calls, ok \in BOOLEAN : RunAnalyticsReturns(c, ok)
    \/ \E t \in AnalyticsType : setAnalysisType(t)
    \/ PollJob
    \/ \E c \in calls, s \in JobStatuses \cup {"throw"} :
         AnalyticsStatusReturns(c, s)
    \/ \E c \in calls, ok \in BOOLEAN : AnalyticsResultsReturns(c, ok)

SpecAnalytics == InitAnalytics /\ [][NextAnalytics]_vars

\* ======================================================= checked claims
\* Worker w has been granted a trigger and is inside handleRuleTrigger.
Handling(w) == pc[w] \in {"create", "stamp", "write"}

\* The timestamp of a last_triggered column that is not NULL.
TimeOf(lastTriggered) == CHOOSE t \in lastTriggered : TRUE

AbsDiff(a, b) == IF a >= b THEN a - b ELSE b - a

\* The cooldown of `rule` has elapsed at time t (or it never triggered).
CooldownElapsed(rule, t) ==
    \/ rule.LastTriggered = {}
    \/ t >= TimeOf(rule.LastTriggered) + rule.CooldownMinutes

\* C1: for a rule with a cooldown > 0, two evaluations running concurrently
\* inside one cooldown window are never both granted.
C1_OneGrantPerWindow ==
    \A w1, w2 \in Workers :
        ( /\ w1 # w2
          /\ Handling(w1) /\ Handling(w2)
          /\ alert[w1].RuleID = alert[w2].RuleID
          /\ rules[alert[w1].RuleID].CooldownMinutes > 0 )
        => AbsDiff(alert[w1].CreatedAt, alert[w2].CreatedAt)
             >= rules[alert[w1].RuleID].CooldownMinutes

\* C2: any two alerts recorded for one rule were created at least
\* cooldownMinutes apart.
C2_AlertsCooldownApart ==
    \A a, b \in alerts :
        (a.ID # b.ID /\ a.RuleID = b.RuleID)
        => AbsDiff(a.CreatedAt, b.CreatedAt)
             >= rules[a.RuleID].CooldownMinutes

C4_MissingPropertyNeverTriggers ==
    /\ \A w \in Workers :
         Handling(w) => Head(pending[w]).Property \in TelemetryFields
    /\ \A a \in alerts : rules[a.RuleID].Property \in TelemetryFields

\* C5: a paused or archived rule is never a candidate of an evaluation and
\* never gets a trigger, an alert, a notification or a lastTriggeredAt.
C5_InactiveRuleNeverTriggers ==
    \A r \in RuleIds :
        rules[r].Status \in {"paused", "archived"}
        => /\ rules[r].LastTriggered = {}
           /\ \A a \in alerts : a.RuleID # r
           /\ \A w \in Workers :
                /\ alert[w].RuleID # r
                /\ \A i \in DOMAIN pending[w] : pending[w][i].ID # r
           /\ \A n \in notified : \E a \in alerts : a.ID = n /\ a.RuleID # r

\* C5 witness: an evaluation is running on telemetry that is in the scope of
\* a paused or archived rule and breaches its threshold.
C5_Witness ==
    \E w \in Workers, r \in RuleIds :
        /\ pc[w] = "loop"
        /\ rules[r].Status \in {"paused", "archived"}
        /\ ScopeMatches(rules[r], telemetry[w].DeviceID)
        /\ evaluateRule(rules[r], telemetry[w])

C7_EvaluatorMatchesReference ==
    evalOut # {}
    => LET actual == evalIn.Value
           threshold == evalIn.Threshold
           op == evalIn.Operator
           res == CHOOSE b \in evalOut : TRUE
       IN /\ op = ">" => (res <=> actual > threshold)
          /\ op = "<" => (res <=> actual < threshold)
          /\ op = ">=" => (res <=> actual >= threshold)
          /\ op = "<=" => (res <=> actual <= threshold)
          /\ op = "=" => (res <=> actual = threshold)
          /\ op = "!=" => (res <=> actual # threshold)
          /\ alerts = {} /\ notified = {}
          /\ \A r \in RuleIds : rules[r].LastTriggered = {}

\* C7 witness: voltage 230 against "< 200" has been evaluated to false.
C7_Witness ==
    /\ evalIn = [Property |-> "voltage", Operator |-> "<",
                 Threshold |-> 200, Value |-> 230]
    /\ evalOut = {FALSE}

\* C8: a granted trigger leaves alertRepo.Create with exactly one new alert,
\* carrying the rule's id, the event's deviceId, the event's value of the
\* rule's property, the rule's threshold and status open.
C8_GrantCreatesOneAlert ==
    [][\A w \in Workers :
         (pc[w] = "create" /\ pc'[w] # "create")
         => /\ Cardinality(alerts' \ alerts) = 1
            /\ \A a \in alerts' \ alerts :
                 /\ a.RuleID = Head(pending[w]).ID
                 /\ a.DeviceID = telemetry[w].DeviceID
                 /\ a.ActualValue
                      = extractValue(telemetry[w], Head(pending[w]).Property)
                 /\ a.ThresholdValue = Head(pending[w]).Threshold
                 /\ a.Status = "open"]_vars

\* C9: whenever a rule's lastTriggeredAt has been advanced to t, or a worker
\* is about to advance it, the alert of that trigger is recorded: an alert of
\* the rule created no later than t exists.
C9_CooldownConsumedImpliesAlert ==
    /\ \A r \in RuleIds :
         rules[r].LastTriggered # {}
         => \E a \in alerts :
              /\ a.RuleID = r
              /\ a.CreatedAt <= TimeOf(rules[r].LastTriggered)
    /\ \A w \in Workers :
         pc[w] \in {"stamp", "write"}
         => /\ alert[w] \in alerts
            /\ alert[w].RuleID = Head(pending[w]).ID

\* C9 witness: the only evaluation so far was granted a trigger of rule r
\* (it is past r in its loop, r is active, in scope and breached, and nothing
\* had triggered before), its alert write failed, and r's cooldown is not
\* consumed.
C9_Witness ==
    \E w \in Workers, r \in RuleIds :
        /\ nEvents = 1
        /\ pc[w] = "loop"
        /\ rules[r].Status = "active"
        /\ ScopeMatches(rules[r], telemetry[w].DeviceID)
        /\ evaluateRule(rules[r], telemetry[w])
        /\ \A i \in DOMAIN pending[w] : pending[w][i].ID > r
        /\ alerts = {}
        /\ rules[r].LastTriggered = {}

\* C10: a rule's lastTriggeredAt never decreases or returns to absent, and
\* it changes only in the UpdateLastTriggered step of a worker that was
\* granted a trigger of that rule.
C10_LastTriggeredMonotone ==
    [][\A r \in RuleIds :
         /\ rules[r].LastTriggered # {}
              => /\ rules'[r].LastTriggered # {}
                 /\ TimeOf(rules'[r].LastTriggered)
                      >= TimeOf(rules[r].LastTriggered)
         /\ rules'[r].LastTriggered # rules[r].LastTriggered
              => \E w \in Workers :
                   /\ pc[w] = "write"
                   /\ alert[w].RuleID = r
                   /\ alert[w] \in alerts]_vars

\* C11 (rule isolation): within one call the outcome of a rule depends only
\* on that rule, the event and the rule's own cooldown state.  Whether the
\* rule at the head of the loop is granted is decided by shouldEvaluate and
\* evaluateRule on that rule and the event alone; whichever way the handling
\* of a rule ends (no match, suppression, failed alert write, alert created)
\* exactly that rule leaves the loop and the event stays the same, so every
\* other candidate is still evaluated; the call returns only when no
\* candidate is left; and a rule's row is written only by a call that is
\* handling that very rule.
C11_RuleIsolation ==
    [][/\ \A w \in Workers :
            /\ (pc[w] = "loop" /\ pending[w] # << >> /\ pc'[w] = "create")
                 => /\ shouldEvaluate(Head(pending[w]), now)
                    /\ evaluateRule(Head(pending[w]), telemetry[w])
                    /\ alert'[w].RuleID = Head(pending[w]).ID
            /\ (pc[w] = "loop" /\ pending[w] # << >> /\ pc'[w] = "loop"
                   /\ pending'[w] # pending[w])
                 => ~(/\ shouldEvaluate(Head(pending[w]), now)
                      /\ evaluateRule(Head(pending[w]), telemetry[w]))
            /\ (pc[w] # "idle" /\ pending'[w] # pending[w])
                 => /\ pending[w] # << >>
                    /\ pending'[w] = Tail(pending[w])
                    /\ telemetry'[w] = telemetry[w]
            /\ (pc[w] = "loop" /\ pc'[w] = "idle") => pending[w] = << >>
       /\ \A r \in RuleIds :
            rules'[r] # rules[r]
              => \E w \in Workers : pc[w] = "write" /\ alert[w].RuleID = r]_vars

\* C11 witness: in the only call so far, rule 1 was due and breached but its
\* alert write failed (no alert exists), and rule 2, the next candidate, has
\* been evaluated and granted all the same.
C11_Witness ==
    \E w \in Workers :
        /\ nEvents = 1
        /\ alerts = {}
        /\ pc[w] = "create"
        /\ Len(pending[w]) = 1
        /\ Head(pending[w]).ID = 2
        /\ IsActive(rules[1])
        /\ ScopeMatches(rules[1], telemetry[w].DeviceID)
        /\ rules[1].LastTriggered = {}
        /\ evaluateRule(rules[1], telemetry[w])

\* C12 (malformed rule): a candidate rule whose operator is none of the six
\* the evaluator knows is skipped and reported.  Its evaluation never
\* triggers (no alert is built, nothing is stored), never fails the call
\* (the call goes on in its loop), only that rule leaves the loop, so the
\* candidates behind it are still evaluated, and the step that skips it
\* writes a line to the log; no alert ever refers to such a rule.
C12_MalformedRuleSkippedAndReported ==
    [][/\ \A w \in Workers :
            (/\ pc[w] = "loop"
             /\ pending[w] # << >>
             /\ Head(pending[w]).Operator \notin Operators
             /\ <<pc'[w], pending'[w]>> # <<pc[w], pending[w]>>)
              => /\ pc'[w] = "loop"
                 /\ pending'[w] = Tail(pending[w])
                 /\ telemetry'[w] = telemetry[w]
                 /\ alert'[w] = NoAlert
                 /\ UNCHANGED store
                 /\ logged' # << >>
       /\ \A a \in alerts' : rules'[a.RuleID].Operator \in Operators]_vars

\* C13 (zero cooldown): for an active rule with cooldown_minutes = 0 every
\* evaluation whose condition holds is granted, whatever last_triggered is,
\* a last_triggered equal to or later than the current time included.
C13_ZeroCooldownAlwaysGrants ==
    (/\ evalOut # {}
     /\ evalIn.CooldownMinutes = 0
     /\ evalIn.Status = "active"
     /\ evaluateRule(GateRule(evalIn), GateEvent(evalIn)))
      => evalOut = {TRUE}

\* C14 (alert before notification): an alert is handed to
\* SendAlertNotifications only once its row is in the alert repository, and
\* no step takes a row out of the repository again; "notification started,
\* alert missing" is never the case.
C14_AlertAuthoritative ==
    [][/\ \A n \in notified' : \E a \in alerts' : a.ID = n
       /\ alerts \subseteq alerts']_vars

\* C14 witness: the notifications of a stored alert have been started while
\* the write of last_triggered that preceded them had failed.
C14_Witness ==
    \E a \in alerts :
        /\ a.ID \in notified
        /\ rules[a.RuleID].LastTriggered = {}

\* C19 (lookup failure): a call reports an overall failure only when its
\* rule lookup failed.  The call turns to returning the error straight from
\* its start, never from inside the loop (no failed alert write and nothing
\* else on the way makes it fail), and between the failed lookup and the
\* return it has stored no alert, written no last_triggered, started no
\* notification and looked at no rule.
C19_OnlyLookupFailureFails ==
    [][\A w \in Workers :
         /\ (pc'[w] = "failed" /\ pc[w] # "failed")
              => /\ pc[w] = "idle"
                 /\ UNCHANGED store
                 /\ pending'[w] = << >>
                 /\ alert'[w] = NoAlert
         /\ (pc[w] = "failed" /\ pc'[w] # "failed")
              => /\ pc'[w] = "idle"
                 /\ UNCHANGED store
         /\ (pc[w] = "failed" /\ pc'[w] = "failed")
              => /\ pending'[w] = << >>
                 /\ alert'[w] = NoAlert]_vars

\* C19 witness: the lookup of the first call failed for an event that
\* breaches rule 1, which was active, in scope and never triggered; the
\* call is returning the error and no alert exists.
C19_Witness ==
    \E w \in Workers :
        /\ pc[w] = "failed"
        /\ nEvents = 1
        /\ alerts = {}
        /\ notified = {}
        /\ IsActive(rules[1])
        /\ ScopeMatches(rules[1], telemetry[w].DeviceID)
        /\ rules[1].LastTriggered = {}
        /\ evaluateRule(rules[1], telemetry[w])

\* C20 (returned alerts): a call that returns normally returns exactly the
\* alerts it created, and the empty list when it created none.  Stated for
\* the first call of a run: no other call has started when it returns, so
\* the alerts it created are the rows of the alert repository.
C20_ReturnsCreatedAlerts ==
    [][\A w \in Workers :
         (pc[w] = "loop" /\ pc'[w] = "idle" /\ nEvents = 1)
           => ReturnedAlerts(w) = alerts]_vars

LogsOf(c) == {r \in BagToSet(notificationLogs) : r.channel = c}

\* C16 (channel independence): a queued task that is first in line on its
\* channel can always take its next attempt, whatever the tasks and the
\* circuits of the other channels are doing; a step of a task on one channel
\* (a delivery, a timeout, the last failed attempt, a skip at an open
\* circuit) leaves the tasks, the circuit and the log rows of every other
\* channel as they were; and a channel's circuit changes only by a provider
\* call on that channel.
C16_ChannelIndependence ==
    /\ [](\A a \in AlertIds, c \in Channels :
            (/\ task[<<a, c>>].state = "queued"
             /\ \A b \in AlertIds : b < a => task[<<b, c>>].state # "queued")
              => ENABLED (\E ok \in BOOLEAN : Attempt(a, c, ok)))
    /\ [][\A c \in Channels :
            /\ (\E a \in AlertIds : /\ task[<<a, c>>].state = "queued"
                                     /\ task'[<<a, c>>] # task[<<a, c>>])
                 => \A d \in Channels \ {c} :
                      /\ \A b \in AlertIds : task'[<<b, d>>] = task[<<b, d>>]
                      /\ circuit'[d] = circuit[d]
                      /\ \A r \in BagToSet(notificationLogs') :
                           r.channel = d
                             => /\ BagIn(r, notificationLogs)
                                /\ CopiesIn(r, notificationLogs')
                                     = CopiesIn(r, notificationLogs)
            /\ circuit'[c] # circuit[c]
                 => \E a \in AlertIds :
                      /\ task[<<a, c>>].state = "queued"
                      /\ task'[<<a, c>>].attempts
                           = task[<<a, c>>].attempts + 1]_vars

\* C16 witness: alert 1 names both channels; its email task used up its
\* attempts and opened the email circuit, its whatsapp task delivered, and
\* the whatsapp circuit is closed with no failure counted.
C16_Witness ==
    /\ task[<<1, "email">>].outcome = "exhausted"
    /\ CircuitOpen("email", now)
    /\ task[<<1, "whatsapp">>].outcome = "sent"
    /\ circuit["whatsapp"] = ClosedCircuit
    /\ LogsOf("whatsapp") # {}

\* C17 (bounded retries): whatever the provider does, no task ever makes
\* more than MaxRetryAttempts provider calls; a queued task has made fewer
\* than that, so every attempt brings it closer to its end; every step of a
\* queued task either ends it or adds one call; a task whose last allowed
\* call failed is done with outcome exhausted and is among the dead
\* letters; and a task that is done never runs again.
C17_BoundedRetries ==
    /\ [](\A k \in AlertIds \X Channels :
            /\ task[k].attempts <= MaxRetryAttempts
            /\ task[k].state = "queued" => task[k].attempts < MaxRetryAttempts
            /\ task[k].outcome = "exhausted"
                 => /\ task[k].state = "done"
                    /\ task[k].attempts = MaxRetryAttempts
                    /\ k \in deadLetters
            /\ k \in deadLetters => task[k].outcome = "exhausted")
    /\ [][\A k \in AlertIds \X Channels :
            /\ (task[k].state = "queued" /\ task'[k] # task[k])
                 => \/ task'[k].state = "done"
                    \/ /\ task'[k].state = "queued"
                       /\ task'[k].attempts = task[k].attempts + 1
            /\ task[k].state = "done" => task'[k] = task[k]]_vars

\* C17 witness: the provider of email timed out on every call for alert 1;
\* after MaxRetryAttempts calls the task is done, exhausted and escalated,
\* and no call for it is pending.
C17_Witness ==
    /\ task[<<1, "email">>].state = "done"
    /\ task[<<1, "email">>].outcome = "exhausted"
    /\ task[<<1, "email">>].attempts = MaxRetryAttempts
    /\ <<1, "email">> \in deadLetters
    /\ \A k \in AlertIds \X Channels : task[k].state # "queued"

\* The rows of notification_logs for alert a and channel c, and their number.
RowsOf(a, c) ==
    {r \in BagToSet(notificationLogs) : r.alert_id = a /\ r.channel = c}

RowCount(a, c) ==
    BagCardinality([r \in RowsOf(a, c) |-> CopiesIn(r, notificationLogs)])

\* C18 (one notification attempt record per pair): a finished task has
\* exactly one row in notification_logs, and the row tells its outcome: the
\* number of provider calls made, status sent for a delivery (at the first
\* call or after retries), status failed with the timeout for a task that
\* used up its attempts, status failed with the open circuit for a skipped
\* task.  A pair whose task has not finished has no row, so no pair ever
\* has two.
C18_OneRecordPerPair ==
    \A a \in AlertIds, c \in Channels :
        LET k == <<a, c>> IN
        IF task[k].state = "done"
        THEN /\ RowCount(a, c) = 1
             /\ \A r \in RowsOf(a, c) :
                  /\ r.attempts = task[k].attempts
                  /\ task[k].outcome = "sent"
                       => /\ r.status = "sent"
                          /\ r.attempts \in 1 .. MaxRetryAttempts
                  /\ task[k].outcome = "exhausted"
                       => /\ r.status = "failed"
                          /\ r.provider_response = "timeout"
                          /\ r.attempts = MaxRetryAttempts
                  /\ task[k].outcome = "skipped"
                       => /\ r.status = "failed"
                          /\ r.provider_response = "circuit open"
                          /\ r.attempts < MaxRetryAttempts
                  /\ task[k].outcome \in {"sent", "exhausted", "skipped"}
        ELSE RowCount(a, c) = 0

\* C18 witness: the dispatch of alerts 1 and 2 is complete and shows the
\* four outcomes: email of alert 1 exhausted, whatsapp of alert 1 delivered
\* after a retry, email of alert 2 skipped at the open circuit, whatsapp of
\* alert 2 delivered at the first call; four rows are in the table.
C18_Witness ==
    /\ task[<<1, "email">>].outcome = "exhausted"
    /\ task[<<1, "whatsapp">>].outcome = "sent"
    /\ task[<<1, "whatsapp">>].attempts > 1
    /\ task[<<2, "email">>].outcome = "skipped"
    /\ task[<<2, "whatsapp">>].outcome = "sent"
    /\ task[<<2, "whatsapp">>].attempts = 1
    /\ BagCardinality(notificationLogs) = 4

\* The transitions of the status of an alert: open to acknowledged, open
\* to resolved, acknowledged to resolved.
Lifecycle ==
    {<<"open", "acknowledged">>, <<"open", "resolved">>,
     <<"acknowledged", "resolved">>}

C22_RetryNotGrantedAgain ==
    [][\A w \in Workers :
         ( /\ pc[w] = "loop" /\ pc'[w] = "create"
           /\ \A v \in Workers \ {w} : pc[v] = "idle"
           /\ Head(pending[w]) = rules[Head(pending[w]).ID]
           /\ Head(pending[w]).CooldownMinutes > 0 )
         => ~\E a \in alerts : /\ a.RuleID = Head(pending[w]).ID
                               /\ a.CreatedAt = now]_vars

\* C23: creating the alert of a rule and window a second time stores
\* nothing new and hands back the alert already stored: a Create that
\* succeeds while the store holds an alert of the same rule, created less
\* than cooldownMinutes from the new one, leaves the alerts as they are
\* and gives the id of that alert.
C23_CreateIdempotentPerWindow ==
    [][\A w \in Workers :
         (pc[w] = "create" /\ pc'[w] = "stamp")
         => \A a \in alerts :
              ( /\ a.RuleID = alert[w].RuleID
                /\ AbsDiff(a.CreatedAt, alert[w].CreatedAt)
                     < rules[a.RuleID].CooldownMinutes )
              => /\ alerts' = alerts
                 /\ alert'[w].ID = a.ID]_vars

\* C24: every call of EvaluateRules returns, although no notification it
\* started is ever delivered: a worker that is handling an event is idle
\* again later, and the step that starts the notifications of an alert
\* goes on with the loop at once.
C24_ReturnsWithoutDelivery ==
    /\ \A w \in Workers : (pc[w] # "idle") ~> (pc[w] = "idle")
    /\ [][\A w \in Workers :
            notified' # notified => pc[w] = pc'[w] \/ pc'[w] = "loop"]_vars

\* C24 witness: both calls have returned, an alert was stored and its
\* notifications started, and no delivery has been recorded.
C24_Witness ==
    /\ nEvents = MaxEvents
    /\ \A w \in Workers : pc[w] = "idle"
    /\ notified # {}
    /\ notified \subseteq {a.ID : a \in alerts}
    /\ notificationLogs = EmptyBag
    /\ \A k \in AlertIds \X Channels : task[k].state # "done"

\* C25: a step of the dispatcher (a queued delivery task is attempted,
\* whatever comes of it) changes no rule and no alert: it changes only the
\* task, the circuit of its channel, the notification log and the dead
\* letters.
C25_DispatcherFrame ==
    [][(\E k \in AlertIds \X Channels :
            task[k].state = "queued" /\ task'[k] # task[k])
       => /\ rules' = rules
          /\ alerts' = alerts
          /\ notified' = notified]_vars

\* C25 witness: deliveries ended in each of the three ways (sent, given up
\* after the last retry, skipped on an open circuit) and every alert is
\* still stored as open, with the values it was created with, and no rule
\* has a trigger time.
C25_Witness ==
    /\ \E k \in AlertIds \X Channels : task[k].outcome = "sent"
    /\ \E k \in AlertIds \X Channels : task[k].outcome = "exhausted"
    /\ \E k \in AlertIds \X Channels : task[k].outcome = "skipped"
    /\ alerts # {}
    /\ \A r \in alerts : /\ r.Status = "open"
                         /\ r.RuleID = 1
                         /\ r.ActualValue = 55
                         /\ r.ThresholdValue = 50
    /\ \A i \in RuleIds : /\ rules[i].LastTriggered = {}
                         /\ rules[i].Status = "active"

\* C26: the decision on an event does not depend on the timestamp the
\* event carries: it is the decision every event differing only in its
\* timestamp gets at the same clock reading on the same rule row, and for a
\* breaching event on an active rule it is granted exactly when the clock
\* reading, not the timestamp, is past the cooldown.
C26_DecisionIgnoresEventTimestamp ==
    evalOut # {}
    => /\ \A ts \in GateTimes :
            evalOut = {/\ shouldEvaluate(GateRule(evalIn), now)
                       /\ evaluateRule(GateRule(evalIn),
                                       Payload("D1", ts, evalIn.Value))}
       /\ ( /\ evalIn.Status = "active"
            /\ evalIn.Value > 50 )
          => (evalOut = {TRUE} <=>
                \A l \in evalIn.LastTriggered :
                    now >= l + evalIn.CooldownMinutes)

\* C26 witness: a replayed event that carries a timestamp past the window
\* is suppressed inside the window the rule opened at minute 0.
C26_Witness ==
    /\ evalOut = {FALSE}
    /\ now = 0
    /\ evalIn.Timestamp = 30
    /\ evalIn.LastTriggered = {0}
    /\ evalIn.CooldownMinutes = DefaultCooldown
    /\ evalIn.Status = "active"
    /\ evalIn.Value = 55

\* C27: the cooldown decision is taken on the rule row as the store holds
\* it at the moment of the decision: whenever an evaluation is granted, the
\* stored row of the rule grants it too (so an evaluation whose rule was
\* triggered by another worker after the lookup is suppressed).
C27_DecisionOnStoredRow ==
    [][\A w \in Workers :
         (pc[w] = "loop" /\ pc'[w] = "create")
         => shouldEvaluate(rules[Head(pending[w]).ID], now)]_vars

\* C28: the trigger time written for a rule on a grant is the clock reading
\* the grant was decided on (which is also the creation time of the alert):
\* every write of last_triggered by a worker stores the time of its
\* decision, and every grant that stored its alert ends with that write.
C28_OneTimestampPerGrant ==
    [][\A w \in Workers :
         (pc[w] = "write" /\ pc'[w] = "loop")
         => rules'[alert[w].RuleID].LastTriggered = {alert[w].CreatedAt}]_vars

\* handleSubmit ends in this step with the rule it created.
SubmitEndsWithRule == form.loading /\ ~form'.loading /\ form'.created # 0

\* The status of the rule the form created.
CreatedStatus ==
    (CHOOSE r \in apiRules : r.rule_id = form.created).status

\* C29: a rule created with "Enable rule" unchecked is paused when
\* handleSubmit ends, and the page has then navigated to /rules; the
\* updateRuleStatus request is sent only for such a rule and asks for
\* paused; a rule created with the box checked is active when handleSubmit
\* ends.
C29_DisabledRuleEndsPaused ==
    [][/\ SubmitEndsWithRule
          => /\ ~form.enabled => /\ CreatedStatus' = "paused"
                                 /\ form'.route = "/rules"
             /\ form.enabled => /\ CreatedStatus' = "active"
                                /\ form'.route = "/rules"
       /\ \A c \in calls' \ calls :
            c.op = "updateRuleStatus"
            => /\ ~form.enabled
               /\ c.status = "paused"
               /\ c.rule_id = form'.created]_vars

\* The inputs of the form pass the three checks of the claim: the name is
\* not blank, the threshold text is a numeral, a channel is selected.
FormValid ==
    /\ \E i \in 1 .. Len(form.ruleName) : form.ruleName[i] # " "
    /\ form.threshold \in {"0", "50"}
    /\ form.notificationChannels # {}

\* C30: the form sends createRule only on valid inputs (a name that is not
\* blank, a threshold that is a number, at least one channel), with those
\* inputs as its payload; a submit on other inputs sets an error and sends
\* nothing; and no rule behind the API created through the form has an
\* empty channel set.
C30_CreateOnlyWhenValid ==
    /\ [][/\ \A c \in calls' \ calls :
               c.op = "createRule"
               => /\ FormValid
                  /\ c.notification_channels = form.notificationChannels
                  /\ c.rule_name # << >>
                  /\ form.threshold = "0" => c.threshold = 0
                  /\ form.threshold = "50" => c.threshold = 50
          /\ ( /\ FormEnabled
               /\ ~FormValid
               /\ form' # form
               /\ form'.ruleName = form.ruleName
               /\ form'.threshold = form.threshold
               /\ form'.notificationChannels = form.notificationChannels
               /\ form'.enabled = form.enabled )
             => /\ form'.error # ""
                /\ calls' = calls
                /\ apiRules' = apiRules]_vars
    /\ [](\A r \in apiRules : r.notification_channels # {})

\* C30 witness: a submit without a channel was refused with its error and
\* nothing was sent or created.
C30_Witness ==
    /\ form.error = "At least one notification channel is required"
    /\ \E i \in 1 .. Len(form.ruleName) : form.ruleName[i] # " "
    /\ form.threshold = "0"
    /\ form.notificationChannels = {}
    /\ calls = {}
    /\ apiRules = {}

\* C31: a toggle only switches a rule between active and paused: the
\* request sent for a row shown as active asks for paused, a request that
\* asks for active is sent only for a row shown as paused, the status asked
\* for on the status asked for is the status shown again, and a rule
\* stored as archived stays archived.
C31_ToggleSwitchesActivePaused ==
    /\ \A st \in {"active", "paused"} : newStatus(newStatus(st)) = st
    /\ [][/\ \A c \in calls' \ calls :
               c.op = "updateRuleStatus"
               => /\ rulesPage.rules[c.rule_id] = "active"
                       => c.status = "paused"
                  /\ c.status = "active"
                       => rulesPage.rules[c.rule_id] = "paused"
          /\ \A i \in ListedRuleIds :
               RuleStatusOf(i) = "archived"
               => RuleStatusOf(i)' = "archived"]_vars

\* C32: on the alerts page 1 <= page <= max(1, totalPages) in every state,
\* a change of the status filter sets page to 1, Previous and Next move
\* page by one within 1 .. totalPages, and an answer that lowers totalPages
\* leaves page within it.
C32_PageWithinTotalPages ==
    /\ [](/\ alertsPage.page >= 1
          /\ alertsPage.page <= IF alertsPage.totalPages >= 1
                                THEN alertsPage.totalPages
                                ELSE 1)
    /\ [][/\ alertsPage'.statusFilter # alertsPage.statusFilter
               => alertsPage'.page = 1
          /\ alertsPage'.page # alertsPage.page
               => \/ alertsPage'.page = 1
                  \/ /\ alertsPage'.page \in {alertsPage.page - 1,
                                              alertsPage.page + 1}
                     /\ alertsPage'.page <= alertsPage.totalPages]_vars

\* C33: once "Export latest data" is clicked, running becomes false again
\* and the poll of the export is cleared for good; a status request is sent
\* only by a poll that is set, a cleared poll is never set again, and a poll
\* that stays set after a status answer saw neither completed nor failed
\* nor a throw nor more than 60 seconds since the export started.
C33_ExportPollStops ==
    /\ \A p \in ExportIds :
         (intervals.exports >= p)
           ~> (~devicePage.running /\ p \notin intervals.polls)
    /\ [][/\ \A c \in calls' \ calls :
               c.op = "getExportStatus" => c.poll \in intervals.polls
          /\ \A p \in intervals'.polls \ intervals.polls :
               \E c \in calls \ calls' : c.op = "runExport" /\ c.poll = p
          /\ \A c \in calls \ calls' :
               c.op = "getExportStatus" /\ c.poll \in intervals'.polls
               => /\ ~TimedOut(c.poll)
                  /\ devicePage' = devicePage
                  /\ calls' = calls \ {c}]_vars

\* An export ended by the timeout: its poll is cleared and nothing runs.
C33_Witness ==
    /\ intervals.exports >= 1
    /\ devicePage.error = "Export timeout"
    /\ ~devicePage.running
    /\ intervals.polls = {}
    /\ calls = {}

\* C34: a tick of the export poll that saw the status completed and
\* reloaded the datasets sets no error: the error changes only in a step
\* that answers runExport or getExportStatus without going on to the
\* datasets, or in which a request of the tick threw.
C34_CompletedSetsNoError ==
    [][/\ \A c \in calls \ calls' :
            c.op = "getAvailableDatasets" /\ devicePage'.datasets = c.poll
            => devicePage'.error = devicePage.error
       /\ devicePage'.error # devicePage.error
            => \E c \in calls \ calls' :
                 \/ /\ c.op \in {"runExport", "getExportStatus"}
                    /\ \A d \in calls' \ calls : d.op # "getAvailableDatasets"
                 \/ /\ c.op = "getAvailableDatasets"
                    /\ devicePage'.error = "HTTP 500"]_vars

\* C35: getAnalyticsResults is requested for a job only by a tick whose
\* status request of that job answered completed, and at most once per
\* job; a status request is sent only by the timer that is set, a tick that
\* saw completed or failed or a throw clears the timer of its job, and a
\* timer is only ever set for a job newly submitted.
C35_ResultsOncePerJob ==
    [][/\ \A c \in calls' \ calls :
            c.op = "getAnalyticsResults"
            => /\ \E d \in calls \ calls' :
                    d.op = "getAnalyticsStatus" /\ d.jobId = c.jobId
               /\ requested[c.jobId] = 0
       /\ \A c \in calls' \ calls :
            c.op = "getAnalyticsStatus" => intervals.timer = c.jobId
       /\ \A c \in calls \ calls' :
            /\ c.op = "getAnalyticsStatus"
            /\ \/ \E d \in calls' \ calls : d.op = "getAnalyticsResults"
               \/ devicePage'.error # devicePage.error
            => intervals'.timer # c.jobId
       /\ intervals'.timer \notin {0, intervals.timer}
            => intervals.jobs < intervals'.timer]_vars

\* C36: a change of the analysis type clears jobId, status and every
\* result series, and afterwards no answer to a request of the old job (a
\* request sent under another analysis type, or answered while the page
\* has no job) writes status or a result series.
C36_OldJobNeverWrites ==
    [][/\ devicePage'.analysisType # devicePage.analysisType
            => /\ devicePage'.jobId = 0
               /\ devicePage'.status = ""
               /\ devicePage'.points = NoPoints
       /\ \A c \in calls \ calls' :
            /\ c.op \in {"getAnalyticsStatus", "getAnalyticsResults"}
            /\ \/ c.analysisType # devicePage.analysisType
               \/ devicePage.jobId = 0
            => /\ devicePage'.status = devicePage.status
               /\ devicePage'.points = devicePage.points]_vars

====
